---- MODULE Spec2Model ----
(***************************************************************************)
(* Depth-reduction attacks on depth-robust graphs (src/src/attacks.rs).    *)
(*                                                                         *)
(* A graph is the vector of its parent lists (Vec<Vec<Node>>): node v is   *)
(* position v + 1 of the sequence, nodes are 0 .. n - 1 and every parent   *)
(* of v is smaller than v.  An exclusion set is a set of nodes.  Every     *)
(* attack is a loop; one action is one pass of the loop body, and pc is    *)
(* the position of the running attack.                                     *)
(***************************************************************************)
EXTENDS Integers, Sequences, FiniteSets

VARIABLES g, drs, pc, s, chosen, curr, inradius, incidents, err,
          profile, targets, target, run, tix, results,
          target_der, closest, left, span, best, exchanged,
          crossing, frontier

vars == <<g, drs, pc, s, chosen, curr, inradius, incidents, err,
          profile, targets, target, run, tix, results,
          target_der, closest, left, span, best, exchanged,
          crossing, frontier>>

\* The state of attack_with_profile: the profile it is called with, the
\* targets enumerated, the running target value, the run and the target in
\* hand, and the table of results.
dvars == <<profile, targets, target, run, tix, results>>

\* The state of exchange_nodes_attack and of the cut_covering it is in: the
\* target it is called with, the endpoint closest_to returns for an edge the
\* frontier halves, the left cursor, the span, the best candidate, the edges
\* exchanged, and the crossing edges and the frontier of the span scanned.
xvars == <<target_der, closest, left, span, best, exchanged,
           crossing, frontier>>

(***************************************************************************)
(* Bounds of the model.                                                    *)
(***************************************************************************)
MaxN == 3

MaxBucketN == 5

MaxTarget == 6

MaxK == 2

MaxRadius == 1

MaxLen == 2

MaxRuns == 2

MaxHi == 2

MaxLo == 3

MaxSizeN == 102

(***************************************************************************)
(* Generic helpers.                                                        *)
(***************************************************************************)
Max2(a, b) == IF a >= b THEN a ELSE b

SetMax(S) == CHOOSE x \in S : \A y \in S : y <= x

RECURSIVE DescSeq(_)
DescSeq(S) == IF S = {} THEN <<>> ELSE <<SetMax(S)>> \o DescSeq(S \ {SetMax(S)})

Range(q) == {q[i] : i \in 1..Len(q)}

RECURSIVE SeqMax(_)
SeqMax(q) == IF q = <<>> THEN 0 ELSE Max2(Head(q), SeqMax(Tail(q)))

Pow2(k) == 2 ^ k

(***************************************************************************)
(* f32 arithmetic.  A positive f32 is m * 2^e with 2^23 <= m < 2^24 (the   *)
(* values met are far from the subnormals and from infinity); zero has     *)
(* m = 0.  Every operation rounds to nearest, ties to even.                *)
(***************************************************************************)
F32Zero == [m |-> 0, e |-> 0]

\* The number of binary digits of x.
RECURSIVE BitLen(_)
BitLen(x) == IF x = 0 THEN 0 ELSE 1 + BitLen(x \div 2)

\* q or q + 1: q rounded up when the remainder r of a division by 2 * half
\* is above the half, or on it and q is odd.
RoundHalfEven(q, r, half) ==
    IF r > half \/ (r = half /\ q % 2 = 1) THEN q + 1 ELSE q

\* The f32 of mantissa q (which rounding may have carried to 2^24).
F32Pack(q, e) == IF q = Pow2(24) THEN [m |-> Pow2(23), e |-> e + 1]
                 ELSE [m |-> q, e |-> e]

\* x as f32, for an integer x >= 0.
F32OfInt(x) ==
    LET k == BitLen(x) - 24
    IN  IF x = 0 THEN F32Zero
        ELSE IF k <= 0 THEN [m |-> x * Pow2(-k), e |-> k]
        ELSE F32Pack(RoundHalfEven(x \div Pow2(k), x % Pow2(k), Pow2(k - 1)), k)

\* x * y: the 48-bit product of the mantissas in two halves of 24 bits.
F32Mul(x, y) ==
    IF x.m = 0 \/ y.m = 0 THEN F32Zero
    ELSE LET x1 == x.m \div Pow2(12)
             x0 == x.m % Pow2(12)
             y1 == y.m \div Pow2(12)
             y0 == y.m % Pow2(12)
             mid == x1 * y0 + x0 * y1
             low == (mid % Pow2(12)) * Pow2(12) + x0 * y0
             hi == x1 * y1 + mid \div Pow2(12) + low \div Pow2(24)
             lo == low % Pow2(24)
         IN  IF hi >= Pow2(23)
             THEN F32Pack(RoundHalfEven(hi, lo, Pow2(23)), x.e + y.e + 24)
             ELSE F32Pack(RoundHalfEven(2 * hi + lo \div Pow2(23),
                                        lo % Pow2(23), Pow2(22)),
                          x.e + y.e + 23)

\* n steps of the long division of r by b, the digits appended to q.
RECURSIVE DivSteps(_, _, _, _)
DivSteps(r, b, q, n) ==
    IF n = 0 THEN [q |-> q, r |-> r]
    ELSE IF 2 * r >= b THEN DivSteps(2 * r - b, b, 2 * q + 1, n - 1)
    ELSE DivSteps(2 * r, b, 2 * q, n - 1)

\* x / y for y > 0.
F32Div(x, y) ==
    IF x.m = 0 THEN F32Zero
    ELSE LET d == IF x.m >= y.m THEN DivSteps(x.m - y.m, y.m, 1, 23)
                  ELSE DivSteps(x.m, y.m, 0, 24)
             e == x.e - y.e - (IF x.m >= y.m THEN 23 ELSE 24)
         IN  F32Pack(IF 2 * d.r > y.m \/ (2 * d.r = y.m /\ d.q % 2 = 1)
                     THEN d.q + 1 ELSE d.q, e)

\* x < y
F32Lt(x, y) ==
    IF y.m = 0 THEN FALSE
    ELSE IF x.m = 0 THEN TRUE
    ELSE x.e < y.e \/ (x.e = y.e /\ x.m < y.m)

\* x.ceil() as usize
F32Ceil(x) ==
    IF x.m = 0 THEN 0
    ELSE IF x.e >= 0 THEN x.m * Pow2(x.e)
    ELSE IF x.e < -24 THEN 1
    ELSE (x.m + Pow2(-x.e) - 1) \div Pow2(-x.e)

\* The f32 literals 0.01 and 1.5.
F32Hundredth == [m |-> 10737418, e |-> -30]

F32OneAndHalf == [m |-> 3 * Pow2(22), e |-> -23]

(***************************************************************************)
(* Graph primitives (crate::graph).                                        *)
(***************************************************************************)
Size(G) == Len(G)

Nodes(G) == 0..(Size(G) - 1)

Parents(G, v) == G[v + 1]

Children(G, v) == {c \in Nodes(G) : v \in Range(Parents(G, c))}

Edge(p, c) == [parent |-> p, child |-> c]

\* The ids i, i + 1, .., n - 1 in order.
IndexSeq(i, n) == [j \in 1..(n - i) |-> i + j - 1]

\* for_each_edge: every edge once, parent-ascending then child-ascending.
RECURSIVE EdgeSeqFrom(_, _)
EdgeSeqFrom(G, p) ==
    IF p >= Size(G) THEN <<>>
    ELSE LET cs == SelectSeq(IndexSeq(p + 1, Size(G)),
                       LAMBDA c : \E i \in 1..Len(G[c + 1]) : G[c + 1][i] = p)
         IN  [i \in 1..Len(cs) |-> Edge(p, cs[i])] \o EdgeSeqFrom(G, p + 1)

EdgeSeq(G) == EdgeSeqFrom(G, 0)

CountEdges(G) == Len(EdgeSeq(G))

\* The longest-path table, filled node by node in topological (id) order:
\* the entry of a node is the number of nodes on the longest path that ends
\* in it (the count test_greedy asserts its sets with: the path 0-1-2 left
\* by {3, 4} is deeper than 2).  A node of S holds 0 and is no one's
\* predecessor, an edge of X is skipped.
RECURSIVE DepthAcc(_, _, _, _)
DepthAcc(G, S, X, acc) ==
    IF Len(acc) = Size(G) THEN acc
    ELSE LET v == Len(acc)
             ds == {acc[p + 1] + 1 :
                       p \in {q \in Range(Parents(G, v)) :
                                 q \notin S /\ Edge(q, v) \notin X}}
         IN  DepthAcc(G, S, X,
                 Append(acc, IF v \in S THEN 0
                             ELSE IF ds = {} THEN 1 ELSE SetMax(ds)))

Depth(G) == SeqMax(DepthAcc(G, {}, {}, <<>>))

DepthExclude(G, S) == SeqMax(DepthAcc(G, S, {}, <<>>))

DepthExcludeEdges(G, X) == SeqMax(DepthAcc(G, {}, X, <<>>))

\* remove: the nodes of S lose their edges, node ids are kept.
Remove(G, S) ==
    [i \in 1..Len(G) |->
        IF (i - 1) \in S THEN <<>> ELSE SelectSeq(G[i], LAMBDA p : p \notin S)]

(***************************************************************************)
(* utils: the width of a node id and the most significant differing bit.   *)
(***************************************************************************)
NodeBitsize == 64

RECURSIVE MsbdOf(_, _)
MsbdOf(u, v) == IF u \div 2 = v \div 2 THEN 0 ELSE 1 + MsbdOf(u \div 2, v \div 2)

Msbd(e) == MsbdOf(e.parent, e.child)

(***************************************************************************)
(* Valiant attacks.                                                        *)
(***************************************************************************)
\* Faulty variant of PartitionsFill: the bucket is overwritten by the edge
\* instead of the edge being inserted into it.
RECURSIVE PartitionsFillOverwrite(_, _)
PartitionsFillOverwrite(es, eis) ==
    IF es = <<>> THEN eis
    ELSE LET bit == Msbd(Head(es))
         IN  PartitionsFillOverwrite(Tail(es), [eis EXCEPT ![bit + 1] = {Head(es)}])

\* valiant_partitions: node_bitsize empty edge sets, then every edge of the
\* graph inserted into the set of its most significant differing bit.
RECURSIVE PartitionsFill(_, _)
PartitionsFill(es, eis) ==
    IF es = <<>> THEN eis
    ELSE LET bit == Msbd(Head(es))
         IN  PartitionsFill(Tail(es),
                 [eis EXCEPT ![bit + 1] = eis[bit + 1] \cup {Head(es)}])

ValiantPartitions(G) == PartitionsFill(EdgeSeq(G), [i \in 1..NodeBitsize |-> {}])

\* Faulty variant of MinByKeyFrom: the last of the minimal ones is kept.
RECURSIVE MinByKeyLast(_, _, _)
MinByKeyLast(q, key, first) ==
    IF q = <<>> THEN first
    ELSE MinByKeyLast(Tail(q), key,
             IF key[Head(q)] <= key[first] THEN Head(q) ELSE first)

\* Iterator::min_by_key over the indices in q: the first of the minimal ones.
RECURSIVE MinByKeyFrom(_, _, _)
MinByKeyFrom(q, key, first) ==
    IF q = <<>> THEN first
    ELSE MinByKeyFrom(Tail(q), key,
             IF key[Head(q)] < key[first] THEN Head(q) ELSE first)

MinByKey(q, key) == MinByKeyFrom(Tail(q), key, Head(q))

\* The orders in which the elements of an unordered container (a HashSet)
\* may be enumerated.
RECURSIVE Orders(_)
Orders(S) ==
    IF S = {} THEN {<<>>}
    ELSE UNION {{<<x>> \o o : o \in Orders(S \ {x})} : x \in S}

\* Faulty variant of ParentsOf: the end node of each edge is taken.
RECURSIVE ChildrenOf(_)
ChildrenOf(es) == IF es = <<>> THEN {} ELSE {Head(es).child} \cup ChildrenOf(Tail(es))

\* iter().for_each(|edge| s.insert(edge.parent)) over the edges of a
\* partition in the order es in which the set enumerates them.
RECURSIVE ParentsOf(_)
ParentsOf(es) == IF es = <<>> THEN {} ELSE {Head(es).parent} \cup ParentsOf(Tail(es))

\* Faulty variant of ValiantSizePred: the loop is left one node early.
ValiantSizePredEarly(S, size) == Cardinality(S) + 1 < size

\* Faulty variant of ValiantDepthPred: the loop goes on at the target depth.
ValiantDepthPredLate(G, S, depth) == DepthExclude(G, S) >= depth

\* The termination predicates handed to valiant_reduce_main (true: go on).
ValiantDepthPred(G, S, depth) == DepthExclude(G, S) > depth

ValiantSizePred(S, size) == Cardinality(S) < size

\* find_next: the smallest non-empty partition not chosen before, as its
\* index; None (-1) when there is none left.
None == 0 - 1

FindNext(partitions, chosenBefore) ==
    LET len == [i \in 0..(Len(partitions) - 1) |-> Cardinality(partitions[i + 1])]
        cand == SelectSeq(IndexSeq(0, Len(partitions)),
                    LAMBDA i : len[i] > 0 /\ i \notin Range(chosenBefore))
    IN  IF cand = <<>> THEN None ELSE MinByKey(cand, len)

\* valiant_ab16: usize::next_power_of_two and (di as f32).log2().ceil().
RECURSIVE NextPowerOfTwoFrom(_, _)
NextPowerOfTwoFrom(d, p) == IF p >= d THEN p ELSE NextPowerOfTwoFrom(d, 2 * p)

NextPowerOfTwo(d) == NextPowerOfTwoFrom(d, 1)

RECURSIVE Log2Ceil(_)
Log2Ceil(x) == IF x <= 1 THEN 0 ELSE 1 + Log2Ceil((x + 1) \div 2)

\* The partition valiant_ab16 takes: the first smallest one among the
\* non-empty partitions of at most max_size edges; None when unwrap fails.
Ab16Chosen(partitions, max_size) ==
    LET len == [i \in 0..(Len(partitions) - 1) |-> Cardinality(partitions[i + 1])]
        cand == SelectSeq(IndexSeq(0, Len(partitions)),
                    LAMBDA i : len[i] > 0 /\ len[i] <= max_size)
    IN  IF cand = <<>> THEN None ELSE MinByKey(cand, len)

\* Faulty variant of Extend: the nodes of this pass are not accumulated.
ExtendDropped(S, si) == S

\* s.extend(&si)
Extend(S, si) == S \cup si

\* The partition a pass of valiant_ab16 on cur chooses (none: no edges).
Ab16Part(cur) ==
    LET partitions == ValiantPartitions(cur)
        ki == Log2Ceil(NextPowerOfTwo(Depth(cur)))
        i == IF ki = 0 THEN None ELSE Ab16Chosen(partitions, CountEdges(cur) \div ki)
    IN  IF i = None THEN {} ELSE partitions[i + 1]

\* One pass of the loop of valiant_ab16 from residual graph cur and set S,
\* the chosen partition enumerating its edges in the order ord: the panic
\* it ends in, or the next residual graph and set and whether the loop is
\* left.
Ab16Pass(cur, S, tgt, ord) ==
    LET partitions == ValiantPartitions(cur)
        mi == CountEdges(cur)
        di == NextPowerOfTwo(Depth(cur))
        ki == Log2Ceil(di)
        stay == [err |-> "", curr |-> cur, s |-> S, done |-> FALSE]
    IN  IF ki = 0 THEN [stay EXCEPT !.err = "attempt to divide by zero"]
        ELSE LET max_size == mi \div ki
                 i == Ab16Chosen(partitions, max_size)
             IN  IF i = None
                 THEN [stay EXCEPT !.err = "unwrap on None"]
                 ELSE LET part == partitions[i + 1]
                          new_depth == DepthExcludeEdges(cur, part)
                          si == ParentsOf(ord)
                          nxt == Remove(cur, si)
                      IN  IF ~(new_depth <= di \div 2)
                          THEN [stay EXCEPT
                                   !.err = "assertion failed: new_depth"]
                          ELSE [err |-> "", curr |-> nxt, s |-> Extend(S, si),
                                done |-> Depth(nxt) <= tgt]

(***************************************************************************)
(* Greedy attack: count_paths, append_removal, update_radius_set.          *)
(***************************************************************************)
Pair(node, count) == [node |-> node, count |-> count]

\* Faulty variant of InsertByCount: an entry goes before the entries of
\* equal count placed earlier (the sort is not stable).
InsertByCountUnstable(sorted, x) ==
    LET ahead == Cardinality({i \in 1..Len(sorted) : sorted[i].count > x.count})
    IN  SubSeq(sorted, 1, ahead) \o <<x>> \o SubSeq(sorted, ahead + 1, Len(sorted))

\* sort_by_key(|pair| Reverse(pair.1)): a stable sort, so an entry goes
\* behind every entry placed before it whose count is not smaller.
InsertByCount(sorted, x) ==
    LET ahead == Cardinality({i \in 1..Len(sorted) : sorted[i].count >= x.count})
    IN  SubSeq(sorted, 1, ahead) \o <<x>> \o SubSeq(sorted, ahead + 1, Len(sorted))

\* The entries of pairs are placed one after the other, in their order (the
\* list is handled by halves, first half first).
RECURSIVE SortByCountDesc(_, _)
SortByCountDesc(pairs, sorted) ==
    IF pairs = <<>> THEN sorted
    ELSE IF sorted = <<>> /\ Len(pairs) = 1 THEN pairs
    ELSE IF Len(pairs) = 1 THEN InsertByCount(sorted, pairs[1])
    ELSE LET half == Len(pairs) \div 2
         IN  SortByCountDesc(SubSeq(pairs, half + 1, Len(pairs)),
                             SortByCountDesc(SubSeq(pairs, 1, half), sorted))

\* Faulty variant of CountSweep: an edge out of a node of S is counted too.
RECURSIVE CountSweepAll(_, _, _, _)
CountSweepAll(es, S, d, tabs) ==
    IF es = <<>> THEN tabs
    ELSE LET e == Head(es)
         IN  CountSweepAll(Tail(es), S, d,
                 [ending |->
                     [tabs.ending EXCEPT ![e.child][d] =
                         tabs.ending[e.child][d] + tabs.ending[e.parent][d - 1]],
                  starting |->
                     [tabs.starting EXCEPT ![e.parent][d] =
                         tabs.starting[e.parent][d] + tabs.starting[e.child][d - 1]]])

\* One sweep of for_each_edge at path length d over the two tables (tables
\* without a node have nothing to sweep).
RECURSIVE CountSweep(_, _, _, _)
CountSweep(es, S, d, tabs) ==
    IF es = <<>> \/ DOMAIN tabs.ending = {} THEN tabs
    ELSE LET e == Head(es)
         IN  CountSweep(Tail(es), S, d,
                 IF e.parent \in S THEN tabs
                 ELSE [ending |->
                          [tabs.ending EXCEPT ![e.child][d] =
                              tabs.ending[e.child][d] + tabs.ending[e.parent][d - 1]],
                       starting |->
                          [tabs.starting EXCEPT ![e.parent][d] =
                              tabs.starting[e.parent][d] + tabs.starting[e.child][d - 1]]])

RECURSIVE CountLevels(_, _, _, _, _)
CountLevels(es, S, d, length, tabs) ==
    IF d > length THEN tabs
    ELSE CountLevels(es, S, d + 1, length, CountSweep(es, S, d, tabs))

\* Faulty variant of SumTo: the term of index 0 is left out.
RECURSIVE SumToShort(_, _)
SumToShort(f, n) == IF n <= 0 THEN 0 ELSE f[n] + SumToShort(f, n - 1)

RECURSIVE SumTo(_, _)
SumTo(f, n) == IF n < 0 THEN 0 ELSE f[n] + SumTo(f, n - 1)

\* Faulty variant of PairsFrom: the nodes of S are listed too.
PairsFromAll(G, S, v, count) ==
    [i \in 1..(Size(G) - v) |-> Pair(v + i - 1, count[v + i - 1])]

\* for_each_node from node v on with the nodes of S skipped, each node
\* paired with count[node].
PairsFrom(G, S, v, count) ==
    SelectSeq([i \in 1..(Size(G) - v) |-> Pair(v + i - 1, count[v + i - 1])],
              LAMBDA x : x.node \notin S)

count_paths_degree(G, S) ==
    LET deg == [v \in Nodes(G) |->
                   Cardinality(Children(G, v) \ S)
                     + Cardinality(Range(Parents(G, v)) \ S)]
    IN  SortByCountDesc(PairsFrom(G, S, 0, deg), <<>>)

count_paths(G, S, p) ==
    IF p.use_degree THEN count_paths_degree(G, S)
    ELSE LET length == p.length
             zero == [v \in Nodes(G) |->
                         [d \in 0..length |-> IF d = 0 /\ v \notin S THEN 1 ELSE 0]]
             tabs == CountLevels(EdgeSeq(G), S, 1, length,
                         [ending |-> zero, starting |-> zero])
             inc == [v \in Nodes(G) |->
                        SumTo([d \in 0..length |->
                                  tabs.starting[v][d] * tabs.ending[v][length - d]],
                              length)]
         IN  SortByCountDesc(PairsFrom(G, S, 0, inc), <<>>)

\* Faulty variant of Direct: the children are not collected.
DirectParents(G, v) == Parents(G, v)

\* add_direct_nodes: the parents of v, then its children.
Direct(G, v) == Parents(G, v) \o DescSeq(Children(G, v))

RECURSIVE Closests(_, _)
Closests(G, tosearch) ==
    IF tosearch = <<>> THEN <<>>
    ELSE Direct(G, Head(tosearch)) \o Closests(G, Tail(tosearch))

\* for node in closests: if inradius.insert(node) then tosearch.push(node).
RECURSIVE InsertNew(_, _, _)
InsertNew(closests, rad, tosearch) ==
    IF closests = <<>> THEN [inradius |-> rad, tosearch |-> tosearch]
    ELSE IF Head(closests) \in rad
         THEN InsertNew(Tail(closests), rad, tosearch)
         ELSE InsertNew(Tail(closests), rad \cup {Head(closests)},
                        Append(tosearch, Head(closests)))

RECURSIVE RadiusRounds(_, _, _, _)
RadiusRounds(G, rad, tosearch, rounds) ==
    IF rounds = 0 THEN rad
    ELSE LET r == InsertNew(Closests(G, tosearch), rad, <<>>)
         IN  RadiusRounds(G, r.inradius, r.tosearch, rounds - 1)

update_radius_set(G, node, rad, radius) ==
    RadiusRounds(G, rad \cup {node}, <<node>>, radius)

\* Faulty variant of MaxByCountFrom: the first of the maximal entries.
MaxByCountFirst(q, first) ==
    LET all == <<first>> \o q
        top == CHOOSE i \in 1..Len(all) :
                   /\ \A j \in 1..Len(all) : all[j].count <= all[i].count
                   /\ \A j \in 1..(i - 1) : all[j].count < all[i].count
    IN  all[top]

\* Iterator::max_by_key(|pair| pair.1) over first followed by q: the last of
\* the maximal entries.
MaxByCountFrom(q, first) ==
    LET all == <<first>> \o q
        top == CHOOSE i \in 1..Len(all) :
                   /\ \A j \in 1..Len(all) : all[j].count <= all[i].count
                   /\ \A j \in (i + 1)..Len(all) : all[j].count < all[i].count
    IN  all[top]

MaxByCount(q) == MaxByCountFrom(Tail(q), Head(q))

\* Faulty variant of RemovalLoop: the loop always goes on until k entries
\* are inserted, as if iter_topk were set.
RECURSIVE RemovalLoopTopK(_, _, _, _, _, _, _)
RemovalLoopTopK(G, inc, p, i, count, excluded, st) ==
    IF i > Len(inc) \/ count = p.k THEN [st EXCEPT !.count = count]
    ELSE IF inc[i].node \in st.inradius
         THEN RemovalLoopTopK(G, inc, p, i + 1, count, excluded + 1, st)
         ELSE RemovalLoopTopK(G, inc, p, i + 1, count + 1, excluded,
                  [st EXCEPT !.set = st.set \cup {inc[i].node},
                             !.inradius = update_radius_set(G, inc[i].node,
                                              st.inradius, p.radius)])

\* The for loop of append_removal from entry i of the list on.
RECURSIVE RemovalLoop(_, _, _, _, _, _, _)
RemovalLoop(G, inc, p, i, count, excluded, st) ==
    IF i > Len(inc) THEN [st EXCEPT !.count = count]
    ELSE IF (p.iter_topk /\ count = p.k) \/ (~p.iter_topk /\ count + excluded = p.k)
         THEN [st EXCEPT !.count = count]
         ELSE IF inc[i].node \in st.inradius
              THEN RemovalLoop(G, inc, p, i + 1, count, excluded + 1, st)
              ELSE RemovalLoop(G, inc, p, i + 1, count + 1, excluded,
                       [st EXCEPT !.set = st.set \cup {inc[i].node},
                                  !.inradius = update_radius_set(G, inc[i].node,
                                                   st.inradius, p.radius)])

\* Faulty variant of append_removal: nothing is added when the loop inserted
\* nothing.
AppendRemovalNoFallback(G, set, rad, inc, p) ==
    LET st == [set |-> set, inradius |-> rad, count |-> 0, err |-> ""]
    IN  IF p.radius = 0
        THEN IF inc = <<>> THEN [st EXCEPT !.err = "unwrap on None"]
             ELSE [st EXCEPT !.set = set \cup {MaxByCount(inc).node}]
        ELSE RemovalLoop(G, inc, p, 1, 0, 0, st)

append_removal(G, set, rad, inc, p) ==
    LET st == [set |-> set, inradius |-> rad, count |-> 0, err |-> ""]
    IN  IF p.radius = 0
        THEN IF inc = <<>> THEN [st EXCEPT !.err = "unwrap on None"]
             ELSE [st EXCEPT !.set = set \cup {MaxByCount(inc).node}]
        ELSE LET r == RemovalLoop(G, inc, p, 1, 0, 0, st)
             IN  IF r.count # 0 THEN r
                 ELSE IF inc = <<>> THEN [st EXCEPT !.err = "index out of bounds"]
                      ELSE [r EXCEPT !.set = r.set \cup {inc[1].node},
                                     !.inradius = update_radius_set(G, inc[1].node,
                                                      r.inradius, p.radius),
                                     !.count = 1]

\* Faulty variant of GreedyDepthPred: the loop is left one level early.
GreedyDepthPredEarly(G, S, depth) == DepthExclude(G, S) > depth + 1

\* The termination predicates handed to greedy_reduce_main (true: go on).
GreedyDepthPred(G, S, depth) == DepthExclude(G, S) > depth

GreedySizePred(S, size) == Cardinality(S) < size

\* (size as f32 * 0.01).ceil() as usize
CeilHundredth(size) == F32Ceil(F32Mul(F32OfInt(size), F32Hundredth))

Min2(a, b) == IF a <= b THEN a ELSE b

\* greedy_reduce: the parameters greedy_reduce_main runs with.
GreedyRunParams(kind, tgt, p) ==
    IF kind = "GreedySize" THEN [p EXCEPT !.k = Min2(p.k, CeilHundredth(tgt))]
    ELSE p

(***************************************************************************)
(* The graphs attacked: every DAG on MaxN nodes, every graph on MaxBucketN *)
(* nodes in which a node has its predecessor and at most one more parent   *)
(* (the shape of MetaBucket(2), the construction the tests attack), and    *)
(* the graphs written out in the tests.                                    *)
(***************************************************************************)
RECURSIVE AllGraphs(_)
AllGraphs(n) ==
    IF n = 0 THEN {<<>>}
    ELSE {Append(h, DescSeq(ps)) : h \in AllGraphs(n - 1), ps \in SUBSET (0..(n - 2))}

RECURSIVE BucketGraphs(_)
BucketGraphs(n) ==
    IF n = 0 THEN {<<>>}
    ELSE IF n = 1 THEN {<<<<>>>>}
    ELSE {Append(h, ps) : h \in BucketGraphs(n - 1),
                          ps \in {<<n - 2>>} \cup {<<n - 2, q>> : q \in 0..(n - 3)}}

TEST_PARENTS == <<<<>>, <<0>>, <<1, 0>>, <<2>>, <<3, 2>>, <<4>>, <<5, 4>>, <<6>>>>

GREEDY_PARENTS == <<<<>>, <<0>>, <<1, 0>>, <<2, 1>>, <<3, 2, 0>>, <<4>>>>

LINE_PARENTS == <<<<>>, <<0>>, <<1>>, <<2>>, <<3>>, <<4>>, <<5>>, <<6>>>>

\* DRGAlgo::KConnector(k) on n nodes: node v has the parents v - 1, .., v - k
\* that exist.
KConnector(k, n) ==
    [i \in 1..n |-> [j \in 1..Min2(k, i - 1) |-> i - 1 - j]]

\* The KConnector graphs counted: every k, every size up to one that leaves
\* room for the longest path on both sides of the center node.
KConnGraphs ==
    {KConnector(k, n) : k \in 1..MaxK, n \in 1..(2 * MaxK * MaxLen + MaxBucketN + 1)}

TestGraphs == {TEST_PARENTS, GREEDY_PARENTS, LINE_PARENTS}

Graphs == AllGraphs(MaxN) \cup BucketGraphs(MaxBucketN) \cup TestGraphs

Targets == 0..MaxTarget

NoParams == [k |-> 0, radius |-> 0, length |-> 0, reset |-> FALSE,
             iter_topk |-> FALSE, use_degree |-> FALSE]

NoAttack == [kind |-> "None", target |-> 0, p |-> NoParams]

(***************************************************************************)
(* The f64 values of a target range.  A value is hi * 2^53 + lo in units   *)
(* of 2^-54 (hi = 2 is 1.0, hi = 1 is 0.5), with lo far below 2^53: on     *)
(* these values the sum of two f64 is their exact sum rounded to the 53    *)
(* significant bits of the format, ties to the even mantissa.              *)
(***************************************************************************)
F64(hi, lo) == [hi |-> hi, lo |-> lo]

\* The spacing of the f64 values around hi * 2^53, in units.
RECURSIVE Ulp(_)
Ulp(hi) == IF hi = 0 THEN 1 ELSE IF hi = 1 THEN 2 ELSE 2 * Ulp(hi \div 2)

\* lo rounded to a multiple of ulp, ties to the even multiple.
RoundTiesEven(lo, ulp) ==
    LET q == lo \div ulp
        r == lo % ulp
    IN  IF 2 * r < ulp THEN q * ulp
        ELSE IF 2 * r > ulp THEN (q + 1) * ulp
        ELSE IF q % 2 = 0 THEN q * ulp ELSE (q + 1) * ulp

\* target += interval
F64Add(x, y) ==
    LET hi == x.hi + y.hi
    IN  F64(hi, RoundTiesEven(x.lo + y.lo, Ulp(hi)))

\* target >= end
F64Ge(x, y) == x.hi > y.hi \/ (x.hi = y.hi /\ x.lo >= y.lo)

\* (target * spec.size as f64) as usize: the product is hi * size / 2 and
\* less than one unit of the last place more, and the cast cuts it down.
AbsoluteTarget(x, size) == (x.hi * size) \div 2

NoProfile ==
    [runs |-> 0, size |-> 0,
     range |-> [start |-> F64(0, 0), interval |-> F64(0, 0), end |-> F64(0, 0)],
     attack |-> NoAttack]

\* attack_with_profile is not running.
NoSweep ==
    /\ profile = NoProfile
    /\ targets = <<>>
    /\ target = F64(0, 0)
    /\ run = 0
    /\ tix = 0
    /\ results = <<>>

(***************************************************************************)
(* Exchange-Nodes attack: crossing_edges, detect_overlap and the body of   *)
(* cut_covering.  target_der is an f32: the model holds it in halves, and  *)
(* holds apart the values too large for a usize (infinity among them), for *)
(* which target_der.ceil() as usize saturates.  A ner is held as the pair   *)
(* of the interval and the size, and compared as the f32 quotient of the   *)
(* two.                                                                    *)
(***************************************************************************)
Der(halves) == [huge |-> FALSE, halves |-> halves]

HugeDer == [huge |-> TRUE, halves |-> 0]

\* Edge::interval
Interval(e) == e.child - e.parent

\* Edge::active
Active(e, S) == e.parent \notin S /\ e.child \notin S

\* Edge::overlaps: the closed intervals [parent, child] intersect.
Overlaps(a, b) == a.parent <= b.child /\ b.parent <= a.child

Distance(a, b) == IF a <= b THEN b - a ELSE a - b

\* Edge::closest_to: the endpoint nearer to x; onTie is the endpoint
\* returned when both are as near.
ClosestTo(e, x, onTie) ==
    IF Distance(e.parent, x) < Distance(e.child, x) THEN e.parent
    ELSE IF Distance(e.child, x) < Distance(e.parent, x) THEN e.child
    ELSE IF onTie = "parent" THEN e.parent ELSE e.child

\* target_der as the f32 it is.
F32OfDer(t) == IF t.halves = 0 THEN F32Zero
               ELSE [m |-> F32OfInt(t.halves).m, e |-> F32OfInt(t.halves).e - 1]

\* edge.interval() as f32 / removed_nodes.size() as f32, for the pair ner of
\* the interval and the size.
NerValue(ner) == F32Div(F32OfInt(ner[1]), F32OfInt(ner[2]))

\* ner >= target_der
NerGe(ner, t) == ~t.huge /\ ~F32Lt(NerValue(ner), F32OfDer(t))

\* Faulty variant of NerGt: a candidate as good as the best replaces it.
NerGtOrEqual(a, b) == ~F32Lt(NerValue(a), NerValue(b))

\* ner > best.ner
NerGt(a, b) == F32Lt(NerValue(b), NerValue(a))

\* (span) as f32 > target_der
SpanExceeds(sp, t) == ~t.huge /\ F32Lt(F32OfDer(t), F32OfInt(sp))

\* target_der.ceil() as usize, for a target a usize holds.
CeilDer(t) == (t.halves + 1) \div 2

\* (span as f32 * 1.5).ceil() as usize
GrowSpan(sp) == F32Ceil(F32Mul(F32OfInt(sp), F32OneAndHalf))

\* crossing_edges, the loop on the parents of one child: the edges pushed.
CrossingOfChild(G, child, left_, front, S) ==
    SelectSeq([i \in 1..Len(Parents(G, child)) |->
                  Edge(Parents(G, child)[i], child)],
              LAMBDA e : /\ e.parent \notin S
                         /\ e.parent < front
                         /\ e.parent >= left_)

\* crossing_edges, the loop on the children from child up to right - 1.
RECURSIVE CrossingFrom(_, _, _, _, _, _)
CrossingFrom(G, child, right, left_, front, S) ==
    IF child >= right THEN <<>>
    ELSE (IF child \in S THEN <<>>
          ELSE CrossingOfChild(G, child, left_, front, S))
         \o CrossingFrom(G, child + 1, right, left_, front, S)

\* Faulty variant of InsertByInterval: the longest interval comes first.
InsertByIntervalDesc(sorted, e) ==
    LET ahead == Cardinality({i \in 1..Len(sorted) :
                                 Interval(sorted[i]) >= Interval(e)})
    IN  SubSeq(sorted, 1, ahead) \o <<e>>
            \o SubSeq(sorted, ahead + 1, Len(sorted))

\* One step of the stable sort by interval: e goes behind every edge whose
\* interval is at most its own.
InsertByInterval(sorted, e) ==
    LET ahead == Cardinality({i \in 1..Len(sorted) :
                                 Interval(sorted[i]) <= Interval(e)})
    IN  SubSeq(sorted, 1, ahead) \o <<e>>
            \o SubSeq(sorted, ahead + 1, Len(sorted))

\* crossing.sort_by_key(|edge| edge.interval())
RECURSIVE SortByInterval(_)
SortByInterval(edges) ==
    IF edges = <<>> THEN <<>>
    ELSE InsertByInterval(SortByInterval(SubSeq(edges, 1, Len(edges) - 1)),
                          edges[Len(edges)])

\* crossing_edges: the edges crossing the frontier of the span, the frontier,
\* and the outcome of assert!(edge.interval() <= span).
crossing_edges(G, left_, span_, S) ==
    LET front == left_ + span_ \div 2
        right == left_ + span_
        sorted == SortByInterval(
                      CrossingFrom(G, front + 1, right, left_, front, S))
    IN  [crossing |-> sorted,
         frontier |-> front,
         err |-> IF \E i \in 1..Len(sorted) : Interval(sorted[i]) > span_
                 THEN "assertion failed: edge.interval() <= span" ELSE ""]

\* Faulty variant of detect_overlap: a shared endpoint is no overlap.
detect_overlap_open(left_, span_, exchanged_) ==
    \E i \in 1..Len(exchanged_) :
        /\ exchanged_[i].parent < left_ + span_
        /\ left_ < exchanged_[i].child

\* detect_overlap
detect_overlap(left_, span_, exchanged_) ==
    \E i \in 1..Len(exchanged_) :
        Overlaps(exchanged_[i], Edge(left_, left_ + span_))

NoBest == [some |-> FALSE, ner |-> <<0, 1>>, switched_edge |-> Edge(0, 0),
           removed_nodes |-> {}]

\* Faulty variant of WalkEdge: an edge cut by the nodes removed in this span
\* is walked as well.
WalkEdgeUnchecked(w, edge, S, front, t, onTie) ==
    IF w.err # "" \/ ~Active(edge, S) THEN w
    ELSE LET node_to_remove == ClosestTo(edge, front, onTie)
             removed == w.removed_nodes \cup {node_to_remove}
             ner == <<Interval(edge), Cardinality(removed)>>
         IN  IF node_to_remove \in w.removed_nodes
             THEN [w EXCEPT !.err =
                      "assertion failed: removed_nodes.insert(node_to_remove)"]
             ELSE [w EXCEPT
                      !.removed_nodes = removed,
                      !.best = IF NerGe(ner, t)
                                  /\ (~w.best.some \/ NerGt(ner, w.best.ner))
                               THEN [some |-> TRUE, ner |-> ner,
                                     switched_edge |-> edge,
                                     removed_nodes |-> removed]
                               ELSE @]

\* cut_covering, one edge of the walk over the crossing edges.
WalkEdge(w, edge, S, front, t, onTie) ==
    IF w.err # "" \/ ~(Active(edge, S) /\ Active(edge, w.removed_nodes)) THEN w
    ELSE LET node_to_remove == ClosestTo(edge, front, onTie)
             removed == w.removed_nodes \cup {node_to_remove}
             ner == <<Interval(edge), Cardinality(removed)>>
         IN  IF node_to_remove \in w.removed_nodes
             THEN [w EXCEPT !.err =
                      "assertion failed: removed_nodes.insert(node_to_remove)"]
             ELSE [w EXCEPT
                      !.removed_nodes = removed,
                      !.best = IF NerGe(ner, t)
                                  /\ (~w.best.some \/ NerGt(ner, w.best.ner))
                               THEN [some |-> TRUE, ner |-> ner,
                                     switched_edge |-> edge,
                                     removed_nodes |-> removed]
                               ELSE @]

\* for edge in crossing.iter(), from position i on.
RECURSIVE WalkEdges(_, _, _, _, _, _, _)
WalkEdges(w, edges, i, S, front, t, onTie) ==
    IF i > Len(edges) THEN w
    ELSE WalkEdges(WalkEdge(w, edges[i], S, front, t, onTie),
                   edges, i + 1, S, front, t, onTie)

\* cut_covering, one pass of the span loop behind its two breaks: the set,
\* the best candidate and the first assertion that failed.
ScanSpan(G, S, t, left_, span_, best_, onTie) ==
    LET ce == crossing_edges(G, left_, span_, S)
        s1 == IF Len(ce.crossing) = 0 /\ SpanExceeds(span_, t)
              THEN S \cup {ce.frontier} ELSE S
        w0 == [removed_nodes |-> IF ce.frontier \notin s1
                                 THEN {ce.frontier} ELSE {},
               best |-> best_, err |-> ce.err]
        w == WalkEdges(w0, ce.crossing, 1, s1, ce.frontier, t, onTie)
    IN  [s |-> s1, best |-> w.best, err |-> w.err,
         crossing |-> ce.crossing, frontier |-> ce.frontier]

\* exchange_nodes_attack is not running.
NoExchange ==
    /\ target_der = Der(0)
    /\ closest = "parent"
    /\ left = 0
    /\ span = 0
    /\ best = NoBest
    /\ exchanged = <<>>
    /\ crossing = <<>>
    /\ frontier = 0

(***************************************************************************)
(* State machine.                                                          *)
(***************************************************************************)
Init ==
    /\ g \in Graphs
    /\ drs = NoAttack
    /\ pc = "idle"
    /\ s = {}
    /\ chosen = <<>>
    /\ curr = <<>>
    /\ inradius = {}
    /\ incidents = <<>>
    /\ err = ""
    /\ NoSweep
    /\ NoExchange

\* valiant_reduce, ValiantDepth / ValiantSize: valiant_reduce_main up to its loop.
BeginValiant(kind, tgt) ==
    /\ drs' = [kind |-> kind, target |-> tgt, p |-> NoParams]
    /\ pc' = "valiant"
    /\ s' = {}
    /\ chosen' = <<>>
    /\ UNCHANGED <<g, curr, inradius, incidents, err>>

StartValiant(kind, tgt) ==
    /\ pc = "idle"
    /\ BeginValiant(kind, tgt)
    /\ UNCHANGED dvars
    /\ UNCHANGED xvars

ValiantPred ==
    IF drs.kind = "ValiantDepth" THEN ValiantDepthPred(g, s, drs.target)
    ELSE ValiantSizePred(s, drs.target)

\* The origin nodes of the edges es inserted into S one by one, in the order
\* of es, as long as the predicate of the attack is true of the set.
RECURSIVE InsertWhilePred(_, _)
InsertWhilePred(es, S) ==
    IF es = <<>> THEN S
    ELSE IF ~(IF drs.kind = "ValiantDepth" THEN ValiantDepthPred(g, S, drs.target)
              ELSE ValiantSizePred(S, drs.target))
    THEN S
    ELSE InsertWhilePred(Tail(es), S \cup {Head(es).parent})

\* Faulty variant of ValiantAbsorb: the insertion of a partition stops as
\* soon as the target is met, so the nodes taken depend on the order in
\* which the partition enumerates its edges.
ValiantAbsorbUntilMet ==
    /\ pc = "valiant"
    /\ ValiantPred
    /\ LET partitions == ValiantPartitions(g)
           i == FindNext(partitions, chosen)
       IN  /\ i # None
           /\ chosen' = Append(chosen, i)
           /\ \E ord \in Orders(partitions[i + 1]) : s' = InsertWhilePred(ord, s)
    /\ UNCHANGED <<g, drs, pc, curr, inradius, incidents, err>>
    /\ UNCHANGED dvars
    /\ UNCHANGED xvars

\* while f(&s): find_next and the insertion of the partition's origin nodes.
ValiantAbsorb ==
    /\ pc = "valiant"
    /\ ValiantPred
    /\ LET partitions == ValiantPartitions(g)
           i == FindNext(partitions, chosen)
       IN  /\ i # None
           /\ chosen' = Append(chosen, i)
           /\ \E ord \in Orders(partitions[i + 1]) : s' = s \cup ParentsOf(ord)
    /\ UNCHANGED <<g, drs, pc, curr, inradius, incidents, err>>
    /\ UNCHANGED dvars
    /\ UNCHANGED xvars

\* while f(&s): find_next panics.
ValiantExhausted ==
    /\ pc = "valiant"
    /\ ValiantPred
    /\ FindNext(ValiantPartitions(g), chosen) = None
    /\ pc' = "panic"
    /\ err' = "no more partitions to use"
    /\ UNCHANGED <<g, drs, s, chosen, curr, inradius, incidents>>
    /\ UNCHANGED dvars
    /\ UNCHANGED xvars

\* f(&s) is false: return s.
ValiantReturn ==
    /\ pc = "valiant"
    /\ ~ValiantPred
    /\ pc' = "done"
    /\ UNCHANGED <<g, drs, s, chosen, curr, inradius, incidents, err>>
    /\ UNCHANGED dvars
    /\ UNCHANGED xvars

\* valiant_reduce, ValiantAB16: valiant_ab16 up to its loop.
BeginAB16(tgt) ==
    /\ drs' = [kind |-> "ValiantAB16", target |-> tgt, p |-> NoParams]
    /\ pc' = "ab16"
    /\ s' = {}
    /\ curr' = Remove(g, {})
    /\ UNCHANGED <<g, chosen, inradius, incidents, err>>

StartAB16(tgt) ==
    /\ pc = "idle"
    /\ BeginAB16(tgt)
    /\ UNCHANGED dvars
    /\ UNCHANGED xvars

\* One pass of the loop of valiant_ab16.
Ab16Iter ==
    /\ pc = "ab16"
    /\ \E ord \in Orders(Ab16Part(curr)) :
       LET r == Ab16Pass(curr, s, drs.target, ord)
       IN  /\ err' = r.err
           /\ curr' = r.curr
           /\ s' = r.s
           /\ pc' = IF r.err # "" THEN "panic" ELSE IF r.done THEN "done" ELSE "ab16"
    /\ UNCHANGED <<g, drs, chosen, inradius, incidents>>
    /\ UNCHANGED dvars
    /\ UNCHANGED xvars

\* greedy_reduce: greedy_reduce_main up to its loop.
BeginGreedy(kind, tgt, p) ==
    /\ drs' = [kind |-> kind, target |-> tgt, p |-> GreedyRunParams(kind, tgt, p)]
    /\ pc' = "greedy"
    /\ s' = {}
    /\ inradius' = {}
    /\ UNCHANGED <<g, chosen, curr, incidents, err>>

StartGreedy(kind, tgt, p) ==
    /\ pc = "idle"
    /\ BeginGreedy(kind, tgt, p)
    /\ UNCHANGED dvars
    /\ UNCHANGED xvars

GreedyPred ==
    IF drs.kind = "GreedyDepth" THEN GreedyDepthPred(g, s, drs.target)
    ELSE GreedySizePred(s, drs.target)

\* while f(&s, g): count_paths, append_removal, and the reset of inradius.
GreedyIter ==
    /\ pc = "greedy"
    /\ GreedyPred
    /\ LET inc == count_paths(g, s, drs.p)
           r == append_removal(g, s, inradius, inc, drs.p)
       IN  /\ incidents' = inc
           /\ s' = r.set
           /\ err' = r.err
           /\ pc' = IF r.err # "" THEN "panic" ELSE "greedy"
           /\ inradius' = IF r.err = "" /\ drs.p.reset THEN {} ELSE r.inradius
    /\ UNCHANGED <<g, drs, chosen, curr>>
    /\ UNCHANGED dvars
    /\ UNCHANGED xvars

\* f(&s, g) is false: return s.
GreedyReturn ==
    /\ pc = "greedy"
    /\ ~GreedyPred
    /\ pc' = "done"
    /\ UNCHANGED <<g, drs, s, chosen, curr, inradius, incidents, err>>
    /\ UNCHANGED dvars
    /\ UNCHANGED xvars

NextValiant ==
    \/ \E t \in Targets : StartValiant("ValiantDepth", t)
    \/ \E t \in Targets : StartValiant("ValiantSize", t)
    \/ \E t \in Targets : StartAB16(t)
    \/ ValiantAbsorb
    \/ ValiantExhausted
    \/ ValiantReturn
    \/ Ab16Iter

SpecValiant == Init /\ [][NextValiant]_vars

GreedyParamSet ==
    [k : 1..MaxK, radius : 0..MaxRadius, length : {MaxLen}, reset : BOOLEAN,
     iter_topk : BOOLEAN, use_degree : BOOLEAN]

NextGreedy ==
    \/ \E t \in Targets, p \in GreedyParamSet : StartGreedy("GreedyDepth", t, p)
    \/ \E t \in Targets, p \in GreedyParamSet : StartGreedy("GreedySize", t, p)
    \/ GreedyIter
    \/ GreedyReturn

Next == NextValiant \/ NextGreedy

\* The greedy attacks alone.
SpecGreedy == Init /\ [][NextGreedy]_vars

\* The greedy attacks with a radius of more than one hop.
WideParamSet ==
    [k : 1..MaxK, radius : {MaxRadius + 1}, length : {MaxLen}, reset : BOOLEAN,
     iter_topk : BOOLEAN, use_degree : {FALSE}]

\* Graphs long enough to hold a node more than MaxRadius + 1 hops away from
\* a selected one.
WideGraphs == BucketGraphs(MaxBucketN + 1)

InitWide ==
    /\ g \in WideGraphs
    /\ drs = NoAttack
    /\ pc = "idle"
    /\ s = {}
    /\ chosen = <<>>
    /\ curr = <<>>
    /\ inradius = {}
    /\ incidents = <<>>
    /\ err = ""
    /\ NoSweep
    /\ NoExchange

NextWide ==
    \/ \E t \in Targets, p \in WideParamSet : StartGreedy("GreedyDepth", t, p)
    \/ \E t \in Targets, p \in WideParamSet : StartGreedy("GreedySize", t, p)
    \/ GreedyIter
    \/ GreedyReturn

SpecWide == InitWide /\ [][NextWide]_vars

\* GreedySize on a graph of more than a hundred nodes, where the cap
\* ceil(0.01 * size) on k exceeds 1; the candidates are counted by degree.
InitLarge ==
    /\ g = KConnector(1, MaxSizeN)
    /\ drs = NoAttack
    /\ pc = "idle"
    /\ s = {}
    /\ chosen = <<>>
    /\ curr = <<>>
    /\ inradius = {}
    /\ incidents = <<>>
    /\ err = ""
    /\ NoSweep
    /\ NoExchange

LargeParamSet ==
    [k : 1..MaxK, radius : 0..MaxRadius, length : {MaxLen}, reset : BOOLEAN,
     iter_topk : BOOLEAN, use_degree : {TRUE}]

NextLarge ==
    \/ \E t \in {1, MaxSizeN - 1}, p \in LargeParamSet :
          StartGreedy("GreedySize", t, p)
    \/ GreedyIter
    \/ GreedyReturn

SpecLarge == InitLarge /\ [][NextLarge]_vars

(***************************************************************************)
(* The correction of k in greedy_reduce, applied on its own to sizes up to *)
(* MaxSizeN and to sizes at which size as f32 * 0.01 is off the hundredth  *)
(* of the size.                                                            *)
(***************************************************************************)
ParamSizes ==
    1..MaxSizeN \cup {13107200, 13107201, 13107301, 16777301, 1677722689}

ParamKs == {1, MaxK, 131072, 131073, 200000, 16777227, 16777228}

InitParams ==
    /\ g = <<>>
    /\ drs \in [kind : {"GreedyDepth", "GreedySize"}, target : ParamSizes,
                p : [k : ParamKs, radius : {0}, length : {MaxLen},
                     reset : {FALSE}, iter_topk : {FALSE}, use_degree : {FALSE}]]
    /\ pc = "idle"
    /\ s = {}
    /\ chosen = <<>>
    /\ curr = <<>>
    /\ inradius = {}
    /\ incidents = <<>>
    /\ err = ""
    /\ NoSweep
    /\ NoExchange

\* greedy_reduce up to the call of greedy_reduce_main: p.k is corrected.
CallRunParams ==
    /\ pc = "idle"
    /\ drs' = [drs EXCEPT !.p = GreedyRunParams(drs.kind, drs.target, drs.p)]
    /\ pc' = "params"
    /\ UNCHANGED <<g, s, chosen, curr, inradius, incidents, err>>
    /\ UNCHANGED dvars
    /\ UNCHANGED xvars

SpecParams == InitParams /\ [][CallRunParams]_vars

Spec == Init /\ [][Next]_vars

(***************************************************************************)
(* count_paths called on its own, as the tests do, for any exclusion set.  *)
(***************************************************************************)
InitCount ==
    /\ g \in Graphs
    /\ s \in SUBSET Nodes(g)
    /\ drs = NoAttack
    /\ pc = "idle"
    /\ chosen = <<>>
    /\ curr = <<>>
    /\ inradius = {}
    /\ incidents = <<>>
    /\ err = ""
    /\ NoSweep
    /\ NoExchange

CallCountPaths(p) ==
    /\ pc = "idle"
    /\ drs' = [kind |-> "count_paths", target |-> 0, p |-> p]
    /\ incidents' = count_paths(g, s, p)
    /\ pc' = "counted"
    /\ UNCHANGED <<g, s, chosen, curr, inradius, err>>
    /\ UNCHANGED dvars
    /\ UNCHANGED xvars

CountParamSet ==
    {[NoParams EXCEPT !.length = l, !.use_degree = u] : l \in 1..MaxLen, u \in BOOLEAN}

NextCount == \E p \in CountParamSet : CallCountPaths(p)

SpecCount == InitCount /\ [][NextCount]_vars

(***************************************************************************)
(* count_paths on the KConnector graphs with nothing excluded, as          *)
(* test_count_regular_connections calls it.                                *)
(***************************************************************************)
InitConnector ==
    /\ g \in KConnGraphs
    /\ s = {}
    /\ drs = NoAttack
    /\ pc = "idle"
    /\ chosen = <<>>
    /\ curr = <<>>
    /\ inradius = {}
    /\ incidents = <<>>
    /\ err = ""
    /\ NoSweep
    /\ NoExchange

SpecConnector == InitConnector /\ [][NextCount]_vars

(***************************************************************************)
(* update_radius_set and append_removal called on their own, as the tests  *)
(* call them: on any graph of MaxN nodes and on GREEDY_PARENTS, from any   *)
(* in-radius set and an exclusion set of at most one node; and the loop of *)
(* greedy_reduce_main that calls them.                                     *)
(***************************************************************************)
OpsGraphs == AllGraphs(MaxN) \cup {GREEDY_PARENTS}

InitOps ==
    /\ g \in OpsGraphs
    /\ s \in {S \in SUBSET Nodes(g) : Cardinality(S) <= 1}
    /\ inradius \in SUBSET Nodes(g)
    /\ drs = NoAttack
    /\ pc = "idle"
    /\ chosen = <<>>
    /\ curr = <<>>
    /\ incidents = <<>>
    /\ err = ""
    /\ NoSweep
    /\ NoExchange

\* update_radius_set(&graph, node, &mut inradius, radius)
CallUpdateRadius(node, radius) ==
    /\ pc = "idle"
    /\ node \in Nodes(g)
    /\ drs' = [kind |-> "update_radius_set", target |-> node,
               p |-> [NoParams EXCEPT !.radius = radius]]
    /\ inradius' = update_radius_set(g, node, inradius, radius)
    /\ pc' = "radius"
    /\ UNCHANGED <<g, s, chosen, curr, incidents, err>>
    /\ UNCHANGED dvars
    /\ UNCHANGED xvars

\* append_removal(&graph, &mut s, &mut inradius, &incidents, &params) on the
\* list count_paths returned.
CallAppendRemoval(k, radius, iter_topk) ==
    /\ pc = "counted"
    /\ LET p == [drs.p EXCEPT !.k = k, !.radius = radius, !.iter_topk = iter_topk]
           r == append_removal(g, s, inradius, incidents, p)
       IN  /\ drs' = [kind |-> "append_removal", target |-> 0, p |-> p]
           /\ s' = r.set
           /\ inradius' = r.inradius
           /\ err' = r.err
           /\ pc' = IF r.err # "" THEN "panic" ELSE "removed"
    /\ UNCHANGED <<g, chosen, curr, incidents>>
    /\ UNCHANGED dvars
    /\ UNCHANGED xvars

NextOps ==
    \/ CallCountPaths([NoParams EXCEPT !.length = MaxLen])
    \/ \E v \in 0..(MaxBucketN + 1), r \in 0..(MaxRadius + 1) : CallUpdateRadius(v, r)
    \/ \E k \in 0..(MaxK + 1), r \in 0..MaxRadius, topk \in BOOLEAN :
           CallAppendRemoval(k, r, topk)
    \/ NextGreedy

SpecOps == InitOps /\ [][NextOps]_vars

(***************************************************************************)
(* The steps of exchange_nodes_attack: the entry of cut_covering, one pass  *)
(* of its span loop, and its return with the rest of the pass of the outer *)
(* loop.                                                                   *)
(***************************************************************************)
\* attack, DepthReduceSet::ExchangeNodes(_, target_der), and
\* exchange_nodes_attack up to its loop.
BeginExchange(tgt, t, onTie) ==
    /\ drs' = [kind |-> "ExchangeNodes", target |-> tgt, p |-> NoParams]
    /\ target_der' = t
    /\ closest' = onTie
    /\ s' = {}
    /\ exchanged' = <<>>
    /\ left' = 0
    /\ pc' = "exchange"
    /\ UNCHANGED <<g, chosen, curr, inradius, incidents, err>>
    /\ UNCHANGED <<span, best, crossing, frontier>>

StartExchange(t, onTie) ==
    /\ pc = "idle"
    /\ BeginExchange(0, t, onTie)
    /\ UNCHANGED dvars

\* while left < graph.size(): cut_covering is entered, no span scanned yet.
\* For a target no usize holds the cast saturates and + 1 wraps to 0 where
\* overflow is not checked.
CutEnter ==
    /\ pc = "exchange"
    /\ left < Size(g)
    /\ span' = IF target_der.huge THEN 0 ELSE CeilDer(target_der) + 1
    /\ best' = NoBest
    /\ crossing' = <<>>
    /\ pc' = "span"
    /\ UNCHANGED <<g, drs, s, chosen, curr, inradius, incidents, err>>
    /\ UNCHANGED <<target_der, closest, left, exchanged, frontier>>
    /\ UNCHANGED dvars

\* The same entry where overflow is checked: + 1 panics.
CutEnterOverflow ==
    /\ pc = "exchange"
    /\ left < Size(g)
    /\ target_der.huge
    /\ err' = "attempt to add with overflow"
    /\ pc' = "panic"
    /\ UNCHANGED <<g, drs, s, chosen, curr, inradius, incidents>>
    /\ UNCHANGED xvars
    /\ UNCHANGED dvars

\* One pass of the span loop that reaches neither break.
CutScan ==
    /\ pc = "span"
    /\ LET grown == GrowSpan(span)
       IN  /\ left + grown < Size(g)
           /\ ~detect_overlap(left, grown, exchanged)
           /\ LET r == ScanSpan(g, s, target_der, left, grown, best, closest)
              IN  /\ span' = grown
                  /\ s' = r.s
                  /\ best' = r.best
                  /\ crossing' = r.crossing
                  /\ frontier' = r.frontier
                  /\ err' = r.err
                  /\ pc' = IF r.err = "" THEN "span" ELSE "panic"
    /\ UNCHANGED <<g, drs, chosen, curr, inradius, incidents>>
    /\ UNCHANGED <<target_der, closest, left, exchanged>>
    /\ UNCHANGED dvars

\* The pass of the span loop that breaks, the nodes of the best candidate
\* inserted, and in exchange_nodes_attack the edge pushed and left += 2.
CutReturn ==
    /\ pc = "span"
    /\ LET grown == GrowSpan(span)
       IN  /\ \/ left + grown >= Size(g)
              \/ detect_overlap(left, grown, exchanged)
           /\ span' = grown
    /\ IF best.some
       THEN /\ s' = s \cup best.removed_nodes
            /\ exchanged' = Append(exchanged, best.switched_edge)
       ELSE UNCHANGED <<s, exchanged>>
    /\ left' = left + 2
    /\ pc' = "exchange"
    /\ UNCHANGED <<g, drs, chosen, curr, inradius, incidents, err>>
    /\ UNCHANGED <<target_der, closest, best, crossing, frontier>>
    /\ UNCHANGED dvars

\* left >= graph.size(): s is returned.
ExchangeReturn ==
    /\ pc = "exchange"
    /\ left >= Size(g)
    /\ pc' = "done"
    /\ UNCHANGED <<g, drs, s, chosen, curr, inradius, incidents, err>>
    /\ UNCHANGED xvars
    /\ UNCHANGED dvars

(***************************************************************************)
(* attack_with_profile: the enumeration of the targets of the range, then  *)
(* the sweep, run by run and target by target.  A panic of the attack is   *)
(* caught nowhere: it ends the program.                                    *)
(***************************************************************************)
\* The parameters of the greedy attacks of a profile.
DriverParams ==
    [k |-> 1, radius |-> MaxRadius, length |-> MaxLen, reset |-> TRUE,
     iter_topk |-> FALSE, use_degree |-> FALSE]

RangeValues ==
    {x \in {F64(hi, lo) : hi \in 0..MaxHi, lo \in 0..MaxLo} : x.lo % Ulp(x.hi) = 0}

\* The target_der of the Exchange-Nodes attack of a profile.
DriverDers == {Der(0), HugeDer}

Profiles ==
    [runs : 1..MaxRuns, size : {MaxN},
     range : [start : {F64(hi, 0) : hi \in 0..MaxHi}, interval : RangeValues,
              end : {F64(hi, 0) : hi \in 0..(MaxHi + 1)}],
     attack : [kind : {"ValiantDepth", "ValiantSize", "ValiantAB16"},
               target : {0}, p : {NoParams}]
              \cup [kind : {"GreedyDepth", "GreedySize"}, target : {0},
                    p : {DriverParams}]
              \cup [kind : {"ExchangeNodes"}, target : {0}, p : {NoParams},
                    der : DriverDers]]

\* The graphs Graph::new_from_rng builds for a run (shape of MetaBucket(2)).
DriverGraphs == BucketGraphs(MaxN)

InitDriver ==
    /\ profile \in Profiles
    /\ g = <<>>
    /\ drs = NoAttack
    /\ pc = "idle"
    /\ s = {}
    /\ chosen = <<>>
    /\ curr = <<>>
    /\ inradius = {}
    /\ incidents = <<>>
    /\ err = ""
    /\ targets = <<>>
    /\ target = F64(0, 0)
    /\ run = 0
    /\ tix = 0
    /\ results = <<>>
    /\ NoExchange

\* let mut targets = Vec::new(); let mut target = profile.range.start;
StartProfile ==
    /\ pc = "idle"
    /\ pc' = "targets"
    /\ targets' = <<>>
    /\ target' = profile.range.start
    /\ UNCHANGED <<g, drs, s, chosen, curr, inradius, incidents, err,
                   profile, run, tix, results>>
    /\ UNCHANGED xvars

\* SingleAttackResult::default()
DefaultResult == [depth |-> <<0, 1>>, exclusion_size |-> <<0, 1>>]

\* The loop cannot end before the vector outgrows every memory: the running
\* value x is below end, and the interval is below 2^-53 * 2 (hi = 0) while
\* x is a whole binade below end or is left unchanged by the addition.
OutOfReach(x, range) ==
    /\ range.interval.hi = 0
    /\ x.hi < range.end.hi \/ F64Add(x, range.interval) = x

\* One pass of the loop that enumerates the targets; when it breaks, the
\* table of results is allocated.  The loop has no other exit: when the
\* running value cannot reach end, the passes go on until targets.push
\* fails to allocate and the process is aborted, which is taken here with
\* the first such pass.
PushTarget ==
    /\ pc = "targets"
    /\ targets' = Append(targets, target)
    /\ target' = F64Add(target, profile.range.interval)
    /\ IF F64Ge(target', profile.range.end)
       THEN /\ pc' = "sweep"
            /\ results' = [t \in 1..Len(targets') |->
                              [r \in 0..(profile.runs - 1) |-> DefaultResult]]
            /\ err' = err
       ELSE IF OutOfReach(target', profile.range)
       THEN /\ pc' = "abort"
            /\ err' = "memory allocation failed"
            /\ results' = results
       ELSE UNCHANGED <<pc, results, err>>
    /\ UNCHANGED <<g, drs, s, chosen, curr, inradius, incidents,
                   profile, run, tix>>
    /\ UNCHANGED xvars

\* for run in 0..profile.runs: the graph of the run is built.
BeginRun ==
    /\ pc = "sweep"
    /\ run < profile.runs
    /\ g' \in DriverGraphs
    /\ tix' = 1
    /\ pc' = "run"
    /\ UNCHANGED <<drs, s, chosen, curr, inradius, incidents, err,
                   profile, targets, target, run, results>>
    /\ UNCHANGED xvars

\* for (t, target) in targets: attack(&mut g, attack_type) is entered with
\* the absolute target.
DriverAttack ==
    /\ pc = "run"
    /\ tix <= Len(targets)
    /\ LET absolute_target == AbsoluteTarget(targets[tix], profile.size)
           kind == profile.attack.kind
       IN  CASE kind \in {"ValiantDepth", "ValiantSize"} ->
                    BeginValiant(kind, absolute_target) /\ UNCHANGED xvars
             [] kind = "ValiantAB16" ->
                    BeginAB16(absolute_target) /\ UNCHANGED xvars
             [] kind \in {"GreedyDepth", "GreedySize"} ->
                    BeginGreedy(kind, absolute_target, profile.attack.p)
                        /\ UNCHANGED xvars
             [] kind = "ExchangeNodes" ->
                    \E onTie \in {"parent", "child"} :
                        BeginExchange(absolute_target, profile.attack.der, onTie)
    /\ UNCHANGED dvars

\* attack: the set returned is measured and results[t][run] is written.
DriverRecord ==
    /\ pc = "done"
    /\ profile # NoProfile
    /\ results' = [results EXCEPT ![tix][run] =
                      [depth |-> <<DepthExclude(g, s), Size(g)>>,
                       exclusion_size |-> <<Cardinality(s), Size(g)>>]]
    /\ IF tix < Len(targets)
       THEN /\ tix' = tix + 1
            /\ pc' = "run"
            /\ run' = run
       ELSE /\ tix' = 0
            /\ pc' = "sweep"
            /\ run' = run + 1
    /\ UNCHANGED <<g, drs, s, chosen, curr, inradius, incidents, err,
                   profile, targets, target>>
    /\ UNCHANGED xvars

\* Every run is done: AttackResults is returned.
DriverFinish ==
    /\ pc = "sweep"
    /\ run = profile.runs
    /\ pc' = "finished"
    /\ UNCHANGED <<g, drs, s, chosen, curr, inradius, incidents, err,
                   profile, targets, target, run, tix, results>>
    /\ UNCHANGED xvars

NextDriver ==
    \/ StartProfile
    \/ PushTarget
    \/ BeginRun
    \/ DriverAttack
    \/ DriverRecord
    \/ DriverFinish
    \/ ValiantAbsorb
    \/ ValiantExhausted
    \/ ValiantReturn
    \/ Ab16Iter
    \/ GreedyIter
    \/ GreedyReturn
    \/ CutEnter
    \/ CutEnterOverflow
    \/ CutScan
    \/ CutReturn
    \/ ExchangeReturn

SpecDriver == InitDriver /\ [][NextDriver]_vars

(***************************************************************************)
(* crossing_edges called on its own, for any exclusion set and any span    *)
(* that ends within the graph, on the graphs attacked and on the graph in  *)
(* which every pair of nodes is an edge.                                   *)
(***************************************************************************)
CrossingGraphs == Graphs \cup {KConnector(MaxBucketN, MaxBucketN + 1)}

InitCrossing ==
    /\ g \in CrossingGraphs
    /\ drs = NoAttack
    /\ pc = "idle"
    /\ s \in SUBSET Nodes(g)
    /\ chosen = <<>>
    /\ curr = <<>>
    /\ inradius = {}
    /\ incidents = <<>>
    /\ err = ""
    /\ NoSweep
    /\ NoExchange

CallCrossing(left_, span_) ==
    /\ pc = "idle"
    /\ left_ + span_ <= Size(g)
    /\ LET ce == crossing_edges(g, left_, span_, s)
       IN  /\ crossing' = ce.crossing
           /\ frontier' = ce.frontier
           /\ err' = ce.err
           /\ pc' = IF ce.err = "" THEN "done" ELSE "panic"
    /\ left' = left_
    /\ span' = span_
    /\ UNCHANGED <<g, drs, s, chosen, curr, inradius, incidents>>
    /\ UNCHANGED <<target_der, closest, best, exchanged>>
    /\ UNCHANGED dvars

NextCrossing ==
    \E left_ \in 0..Size(g), span_ \in 0..Size(g) : CallCrossing(left_, span_)

SpecCrossing == InitCrossing /\ [][NextCrossing]_vars

(***************************************************************************)
(* exchange_nodes_attack called on its own, for every target_der of the    *)
(* bounds and either choice of closest_to between two nodes as close.      *)
(***************************************************************************)
\* The targets of the attack, in halves.
MaxDer == 4

DerSet == {Der(h) : h \in 0..MaxDer} \cup {HugeDer}

ExchangeGraphs == WideGraphs \cup KConnGraphs \cup TestGraphs

InitExchange ==
    /\ g \in ExchangeGraphs
    /\ drs = NoAttack
    /\ pc = "idle"
    /\ s = {}
    /\ chosen = <<>>
    /\ curr = <<>>
    /\ inradius = {}
    /\ incidents = <<>>
    /\ err = ""
    /\ NoSweep
    /\ NoExchange

NextExchange ==
    \/ \E t \in DerSet, onTie \in {"parent", "child"} : StartExchange(t, onTie)
    \/ CutEnter
    \/ CutEnterOverflow
    \/ CutScan
    \/ CutReturn
    \/ ExchangeReturn

SpecExchange == InitExchange /\ [][NextExchange]_vars

(***************************************************************************)
(* Every attack on the same graphs: the two Valiant attacks and AB16 with  *)
(* every enumeration order of the partitions they walk, the greedy attacks *)
(* and exchange_nodes_attack with the targets a usize holds.               *)
(***************************************************************************)
AttackGraphs == AllGraphs(MaxN) \cup TestGraphs

AttackParamSet == {p \in GreedyParamSet : ~p.use_degree /\ p.k \in {1, MaxK}}

InitAttacks ==
    /\ g \in AttackGraphs
    /\ drs = NoAttack
    /\ pc = "idle"
    /\ s = {}
    /\ chosen = <<>>
    /\ curr = <<>>
    /\ inradius = {}
    /\ incidents = <<>>
    /\ err = ""
    /\ NoSweep
    /\ NoExchange

AttackDers == DerSet \ {HugeDer}

NextAttacks ==
    \/ \E t \in Targets : StartValiant("ValiantDepth", t)
    \/ \E t \in Targets : StartValiant("ValiantSize", t)
    \/ \E t \in Targets : StartAB16(t)
    \/ \E t \in Targets, p \in AttackParamSet : StartGreedy("GreedyDepth", t, p)
    \/ \E t \in Targets, p \in AttackParamSet : StartGreedy("GreedySize", t, p)
    \/ \E t \in AttackDers, onTie \in {"parent", "child"} : StartExchange(t, onTie)
    \/ ValiantAbsorb
    \/ ValiantExhausted
    \/ ValiantReturn
    \/ Ab16Iter
    \/ GreedyIter
    \/ GreedyReturn
    \/ CutEnter
    \/ CutScan
    \/ CutReturn
    \/ ExchangeReturn

SpecAttacks == InitAttacks /\ [][NextAttacks]_vars

(***************************************************************************)
(* Reference notions the properties are stated with.                       *)
(***************************************************************************)
\* The edges of G read off the parent lists.
RefEdges(G) == UNION {{Edge(q, c) : q \in Range(Parents(G, c))} : c \in Nodes(G)}

\* The edges of G - S.
RefEdgesExcl(G, S) == {e \in RefEdges(G) : e.parent \notin S /\ e.child \notin S}

\* P is the node set of a directed path of es (ids rise along a path).
IsPath(P, es) ==
    \A a \in P : (\E b \in P : b > a) =>
        Edge(a, CHOOSE b \in P : b > a /\ \A c \in P : c > a => b <= c) \in es

\* The number of edges on the longest directed path of G - S.
RefDepthEdges(G, S) ==
    SetMax({Cardinality(P) - 1 :
               P \in {Q \in SUBSET (Nodes(G) \ S) : Q # {} /\ IsPath(Q, RefEdgesExcl(G, S))}}
           \cup {0})

\* The number of nodes on the longest directed path of G - S.
RefDepth(G, S) ==
    SetMax({Cardinality(P) :
               P \in {Q \in SUBSET (Nodes(G) \ S) : IsPath(Q, RefEdgesExcl(G, S))}})

Bit(x, i) == (x \div Pow2(i)) % 2

\* i is the most significant bit at which u and v differ.
IsMsbDiff(u, v, i) ==
    /\ i <= 30
    /\ Bit(u, i) # Bit(v, i)
    /\ u \div Pow2(i + 1) = v \div Pow2(i + 1)

ParentsOfRef(es) == {e.parent : e \in es}

DepthKinds == {"ValiantDepth", "GreedyDepth"}

SizeKinds == {"ValiantSize", "GreedySize"}

\* C1: a depth-targeted attack (ValiantDepth, GreedyDepth) that returns a
\* set S returns one with depth(G - S) <= d.
C1_DepthTargetMet ==
    (pc = "done" /\ drs.kind \in DepthKinds) => RefDepth(g, s) <= drs.target

C1_Witness ==
    /\ pc = "done"
    /\ drs.kind = "GreedyDepth"
    /\ s # {}
    /\ RefDepth(g, {}) > drs.target
    /\ RefDepth(g, s) = drs.target

\* C2: a size-targeted attack (ValiantSize, GreedySize) that returns a set
\* S returns one with |S| >= s; when the target cannot be reached (Valiant:
\* every non-empty partition absorbed and |S| < s; Greedy: s > n) the
\* attack fails and returns nothing.
C2_SizeTargetMet ==
    /\ (pc = "done" /\ drs.kind \in SizeKinds) => Cardinality(s) >= drs.target
    /\ (pc = "valiant" /\ drs.kind = "ValiantSize" /\ Cardinality(s) < drs.target
          /\ \A e \in RefEdges(g) :
                \E i \in Range(chosen) : IsMsbDiff(e.parent, e.child, i))
         => ENABLED ValiantExhausted /\ ~ENABLED ValiantReturn /\ ~ENABLED ValiantAbsorb
    /\ (drs.kind = "GreedySize" /\ drs.target > Size(g)) => pc # "done"
    /\ (pc = "greedy" /\ drs.kind = "GreedySize" /\ drs.target > Size(g)
          /\ s = Nodes(g))
         => ~ENABLED GreedyReturn

C2_Witness ==
    /\ pc = "panic"
    /\ drs.kind = "GreedySize"
    /\ drs.target > Size(g)
    /\ s = Nodes(g)

\* C3: a depth-targeted attack returns a set S with depth(G - S) strictly
\* smaller than the target d (stated for d >= 1: no depth is below 0).
C3_DepthStrictlyBelow ==
    (pc = "done" /\ drs.kind \in DepthKinds /\ drs.target >= 1)
        => RefDepth(g, s) < drs.target

\* C4: valiant_partitions returns node_bitsize buckets; every edge of G is
\* in exactly one bucket, the one of the most significant bit at which its
\* two ends differ, and a bucket holds nothing but edges of G.
C4_PartitionByMsb ==
    LET parts == ValiantPartitions(g)
    IN  /\ Len(parts) = NodeBitsize
        /\ \A e \in RefEdges(g) :
              \E i \in 0..(NodeBitsize - 1) :
                  /\ e \in parts[i + 1]
                  /\ IsMsbDiff(e.parent, e.child, i)
                  /\ \A j \in 0..(NodeBitsize - 1) : e \in parts[j + 1] => j = i
        /\ \A i \in 1..Len(parts) : parts[i] \subseteq RefEdges(g)

C4_Witness ==
    /\ g = TEST_PARENTS
    /\ ValiantPartitions(g)[3] = {Edge(2, 4), Edge(3, 4)}
    /\ Cardinality(ValiantPartitions(g)[1]) = 4
    /\ pc = "valiant"

\* The edges of G whose ends differ first at bit i, and their number.
RefPartition(G, i) == {e \in RefEdges(G) : IsMsbDiff(e.parent, e.child, i)}

RefPartSize(G, i) == Cardinality(RefPartition(G, i))

ScenarioSet == {0, 2, 3, 4, 6}

\* C5: valiant_reduce_main absorbs one partition per pass: never an empty
\* one, never one twice, in non-decreasing order of size, the lowest bit
\* first among partitions of equal size; S is the set of the parents of the
\* edges of the absorbed partitions; on TEST_PARENTS both ValiantDepth(2)
\* and ValiantSize(3) return {0, 2, 3, 4, 6}.
C5_AbsorbSmallestFirst ==
    (drs.kind \in {"ValiantDepth", "ValiantSize"}) =>
        /\ \A j \in 1..Len(chosen) :
              /\ RefPartSize(g, chosen[j]) > 0
              /\ \A h \in 1..(j - 1) : chosen[h] # chosen[j]
              /\ \A i \in 0..30 :
                    (RefPartSize(g, i) > 0 /\ \A h \in 1..(j - 1) : chosen[h] # i)
                        => \/ RefPartSize(g, chosen[j]) < RefPartSize(g, i)
                           \/ /\ RefPartSize(g, chosen[j]) = RefPartSize(g, i)
                              /\ chosen[j] <= i
              /\ j > 1 => RefPartSize(g, chosen[j - 1]) <= RefPartSize(g, chosen[j])
        /\ s = UNION {ParentsOfRef(RefPartition(g, chosen[j])) : j \in 1..Len(chosen)}
        /\ (pc = "done" /\ g = TEST_PARENTS
              /\ \/ drs.kind = "ValiantDepth" /\ drs.target = 2
                 \/ drs.kind = "ValiantSize" /\ drs.target = 3)
             => s = ScenarioSet

C5_Witness ==
    /\ pc = "done"
    /\ g = TEST_PARENTS
    /\ drs.kind = "ValiantSize"
    /\ drs.target = 3
    /\ chosen = <<2, 0>>
    /\ s = ScenarioSet

\* C6 as stated: on TEST_PARENTS ValiantDepth(2) returns S = {0, 2, 3, 4, 6}
\* and the depth of G - S, counted in edges, is 2.
C6_ScenarioDepthTwo ==
    (pc = "done" /\ g = TEST_PARENTS /\ drs.kind = "ValiantDepth" /\ drs.target = 2)
        => s = ScenarioSet /\ RefDepthEdges(g, s) = 2

\* C6 amended: on TEST_PARENTS ValiantDepth(2) returns S = {0, 2, 3, 4, 6}
\* and no edge joins the nodes 1, 5, 7 left: the depth of G - S is 0 counted
\* in edges, and 1 counted in nodes as depth_exclude counts it.
C6_ScenarioDepthZero ==
    (pc = "done" /\ g = TEST_PARENTS /\ drs.kind = "ValiantDepth" /\ drs.target = 2)
        => /\ s = ScenarioSet
           /\ RefDepthEdges(g, s) = 0
           /\ RefEdgesExcl(g, s) = {}
           /\ DepthExclude(g, s) = 1

C6_Witness ==
    /\ pc = "done"
    /\ g = TEST_PARENTS
    /\ drs.kind = "ValiantDepth"
    /\ drs.target = 2
    /\ Len(chosen) = 2

\* C7: when valiant_ab16 returns S, depth(G - S) <= target; throughout, the
\* residual graph has the depth of G with the accumulated S excluded; on
\* the line graph of 8 nodes with target 4 it returns S = {3}.
C7_Ab16TargetMet ==
    (drs.kind = "ValiantAB16") =>
        /\ pc = "done" => RefDepth(g, s) <= drs.target
        /\ pc \in {"ab16", "done"} => Depth(curr) = RefDepth(g, s)
        /\ (pc = "done" /\ g = LINE_PARENTS /\ drs.target = 4) => s = {3}

C7_Witness ==
    /\ pc = "done"
    /\ drs.kind = "ValiantAB16"
    /\ g = LINE_PARENTS
    /\ drs.target = 4
    /\ s = {3}

\* C8: the depth-halving assertion of valiant_ab16 never fires.
C8_AssertionNeverFires == err # "assertion failed: new_depth"

\* The number of directed paths of exactly l edges in G - S that contain v.
RefPathCount(G, S, v, l) ==
    Cardinality({P \in SUBSET (Nodes(G) \ S) :
                    Cardinality(P) = l + 1 /\ v \in P /\ IsPath(P, RefEdges(G))})

\* The number of children and parents of v outside S.
RefDegree(G, S, v) ==
    Cardinality({c \in Nodes(G) \ S : Edge(v, c) \in RefEdges(G)})
      + Cardinality({q \in Nodes(G) \ S : Edge(q, v) \in RefEdges(G)})

PairSet(q) == {<<q[i].node, q[i].count>> : i \in 1..Len(q)}

\* C9: for every node v outside S, count_paths returns for v the number of
\* directed paths of exactly l edges of G - S through v (path mode), or the
\* number of its children and parents outside S (degree mode); on
\* GREEDY_PARENTS with l = 2 the counts are those of test_count_paths.
C9_CountPathsAgrees ==
    (pc = "counted") =>
        /\ \A v \in Nodes(g) \ s :
              \E i \in 1..Len(incidents) :
                  /\ incidents[i].node = v
                  /\ incidents[i].count =
                        IF drs.p.use_degree THEN RefDegree(g, s, v)
                        ELSE RefPathCount(g, s, v, drs.p.length)
        /\ (g = GREEDY_PARENTS /\ ~drs.p.use_degree /\ drs.p.length = 2 /\ s = {})
             => PairSet(incidents) =
                   {<<0, 5>>, <<1, 5>>, <<2, 7>>, <<3, 6>>, <<4, 7>>, <<5, 3>>}
        /\ (g = GREEDY_PARENTS /\ ~drs.p.use_degree /\ drs.p.length = 2 /\ s = {4})
             => PairSet(incidents) = {<<0, 3>>, <<1, 3>>, <<2, 3>>, <<3, 3>>, <<5, 0>>}

C9_Witness ==
    /\ pc = "counted"
    /\ g = GREEDY_PARENTS
    /\ s = {4}
    /\ ~drs.p.use_degree
    /\ drs.p.length = 2
    /\ PairSet(incidents) = {<<0, 3>>, <<1, 3>>, <<2, 3>>, <<3, 3>>, <<5, 0>>}

\* C10: the list count_paths returns (both modes) holds one entry for each
\* node outside S and none for a node of S, by count descending and, among
\* equal counts, by node id ascending.
C10_OneEntryPerNodeRanked ==
    (pc = "counted") =>
        /\ Len(incidents) = Cardinality(Nodes(g) \ s)
        /\ {incidents[i].node : i \in 1..Len(incidents)} = Nodes(g) \ s
        /\ \A i \in 1..Len(incidents) : \A j \in (i + 1)..Len(incidents) :
              \/ incidents[i].count > incidents[j].count
              \/ /\ incidents[i].count = incidents[j].count
                 /\ incidents[i].node < incidents[j].node

C10_Witness ==
    /\ pc = "counted"
    /\ g = GREEDY_PARENTS
    /\ s = {}
    /\ ~drs.p.use_degree
    /\ incidents = <<Pair(2, 7), Pair(4, 7), Pair(3, 6), Pair(0, 5), Pair(1, 5), Pair(5, 3)>>

RECURSIVE Pow(_, _)
Pow(k, l) == IF l = 0 THEN 1 ELSE k * Pow(k, l - 1)

\* G is KConnector(k) on its n nodes, read off the parent lists.
IsKConnector(G, k) ==
    \A v \in Nodes(G) : Range(Parents(G, v)) = {u \in Nodes(G) : u < v /\ v - u <= k}

\* C11: on a KConnector(k) graph with S empty and at least k * l nodes on
\* each side of the center node n div 2, the path-mode count of the center
\* node for length l is k^l * (l + 1).
C11_ConnectorCenterCount ==
    (pc = "counted" /\ ~drs.p.use_degree /\ s = {}) =>
        \A k \in 1..MaxK :
            LET c == Size(g) \div 2
                l == drs.p.length
            IN  (IsKConnector(g, k) /\ c >= k * l /\ Size(g) - 1 - c >= k * l)
                    => \E i \in 1..Len(incidents) :
                           /\ incidents[i].node = c
                           /\ incidents[i].count = Pow(k, l) * (l + 1)

C11_Witness ==
    /\ pc = "counted"
    /\ ~drs.p.use_degree
    /\ drs.p.length = 2
    /\ g = KConnector(2, 9)
    /\ \E i \in 1..Len(incidents) : incidents[i].node = 4 /\ incidents[i].count = 12

\* The nodes within r hops of v over parent and child links, v included.
RECURSIVE RefBall(_, _, _)
RefBall(G, v, r) ==
    IF r = 0 THEN {v}
    ELSE LET b == RefBall(G, v, r - 1)
         IN  b \cup {u \in Nodes(G) :
                        \E w \in b : Edge(u, w) \in RefEdges(G) \/ Edge(w, u) \in RefEdges(G)}

\* C12: update_radius_set(v, r) on an empty in-radius set leaves exactly the
\* nodes within r hops of v over parent and child links, v included; r = 0
\* leaves {v}.
C12_RadiusBallFromEmpty ==
    [][(pc = "idle" /\ pc' = "radius" /\ inradius = {})
          => /\ inradius' = RefBall(g, drs'.target, drs'.p.radius)
             /\ drs'.p.radius = 0 => inradius' = {drs'.target}]_vars

C12_Witness ==
    /\ pc = "radius"
    /\ g = GREEDY_PARENTS
    /\ drs.target = 2
    /\ drs.p.radius = 1
    /\ inradius = {0, 1, 2, 3, 4}

\* A step of append_removal on a non-empty ranked list.
RemovalStep ==
    /\ pc = "counted"
    /\ pc' \in {"removed", "panic"}
    /\ incidents # <<>>

\* C17: append_removal with radius = 0 on a non-empty list adds exactly one
\* node to S and leaves the in-radius set alone, whatever k and iter_topk:
\* a node of maximal count and, among those, the last of the ranked list
\* (the largest id); on GREEDY_PARENTS with S empty it adds node 4, not 2.
C17_RadiusZeroAddsLastMax ==
    [][(RemovalStep /\ drs'.p.radius = 0)
          => /\ pc' = "removed"
             /\ inradius' = inradius
             /\ \E i \in 1..Len(incidents) :
                   /\ incidents[i].node \notin s
                   /\ s' = s \cup {incidents[i].node}
                   /\ \A j \in 1..Len(incidents) :
                         /\ incidents[j].count <= incidents[i].count
                         /\ incidents[j].count = incidents[i].count
                               => /\ j <= i
                                  /\ incidents[j].node <= incidents[i].node
             /\ (g = GREEDY_PARENTS /\ s = {}) => s' = {4}]_vars

C17_Witness ==
    /\ pc = "removed"
    /\ drs.p.radius = 0
    /\ drs.p.k = 3
    /\ g = GREEDY_PARENTS
    /\ incidents = <<Pair(2, 7), Pair(4, 7), Pair(3, 6), Pair(0, 5), Pair(1, 5), Pair(5, 3)>>
    /\ s = {4}

\* The nodes inserted when the entries i, i + 1, .., last of the ranked list
\* are examined in turn from the in-radius set rad: an entry outside rad is
\* inserted and its radius added to rad.
RECURSIVE RefExamined(_, _, _, _, _, _)
RefExamined(G, inc, i, last, rad, radius) ==
    IF i > last THEN {}
    ELSE IF inc[i].node \in rad THEN RefExamined(G, inc, i + 1, last, rad, radius)
         ELSE {inc[i].node}
                \cup RefExamined(G, inc, i + 1, last,
                         update_radius_set(G, inc[i].node, rad, radius), radius)

\* C18: append_removal with radius > 0 and iter_topk = false examines the
\* first k entries of the ranked list and no other: an examined entry is
\* inserted iff it is outside the in-radius set when its turn comes, and
\* nothing else is inserted unless none was (then the first entry is); on
\* GREEDY_PARENTS with S = {4}, k = 3, radius = 1 and an empty in-radius set
\* only node 0 is added.
C18_FirstKExamined ==
    [][(RemovalStep /\ drs'.p.radius > 0 /\ ~drs'.p.iter_topk)
          => LET last == Min2(drs'.p.k, Len(incidents))
                 ins == RefExamined(g, incidents, 1, last, inradius, drs'.p.radius)
             IN  /\ Cardinality(ins) <= drs'.p.k
                 /\ s' = s \cup (IF ins = {} THEN {incidents[1].node} ELSE ins)
                 /\ (g = GREEDY_PARENTS /\ s = {4} /\ inradius = {}
                       /\ drs'.p.k = 3 /\ drs'.p.radius = 1)
                      => s' = {4, 0}]_vars

C18_Witness ==
    /\ pc = "removed"
    /\ ~drs.p.iter_topk
    /\ drs.p.radius = 1
    /\ drs.p.k = 3
    /\ g = GREEDY_PARENTS
    /\ incidents = <<Pair(0, 3), Pair(1, 3), Pair(2, 3), Pair(3, 3), Pair(5, 0)>>
    /\ s = {0, 4}
    /\ inradius = {0, 1, 2, 4}

\* The for loop of append_removal inserts nothing: k = 0, or every entry it
\* examines (the first k, every entry with iter_topk) is in the in-radius set.
NoneInserted(inc, rad, p) ==
    \/ p.k = 0
    \/ \A i \in 1..(IF p.iter_topk THEN Len(inc) ELSE Min2(p.k, Len(inc))) :
          inc[i].node \in rad

\* C19: append_removal on a non-empty list adds at least one node that was
\* not in S, for every k >= 0, radius, iter_topk and in-radius set; when
\* the loop inserts nothing (radius > 0) the first entry of the list is
\* added and the radius update is run on it.  Hence a pass of the loop of
\* greedy_reduce_main that does not panic leaves S strictly larger.
C19_RemovalAddsNode ==
    [][/\ (pc = "greedy" /\ pc' = "greedy") => (s \subseteq s' /\ s' # s)
       /\ RemovalStep
          => /\ pc' = "removed"
             /\ s \subseteq s'
             /\ s' # s
             /\ (drs'.p.radius > 0 /\ NoneInserted(incidents, inradius, drs'.p))
                  => /\ s' = s \cup {incidents[1].node}
                     /\ incidents[1].node \notin s
                     /\ inradius \cup RefBall(g, incidents[1].node, 1) \subseteq inradius'
                     /\ inradius' \subseteq
                            inradius \cup RefBall(g, incidents[1].node, drs'.p.radius)]_vars

C19_Witness ==
    /\ pc = "removed"
    /\ drs.p.radius = 1
    /\ drs.p.k = 0
    /\ g = GREEDY_PARENTS
    /\ Cardinality(s) = 1
    /\ incidents[1].node \in s

\* A run of the scenarios S4 / S5: GreedyDepth(2) on GREEDY_PARENTS with
\* k = 1 and length = 2.
GreedyScenario ==
    /\ g = GREEDY_PARENTS
    /\ drs.kind = "GreedyDepth"
    /\ drs.target = 2
    /\ drs.p.k = 1
    /\ drs.p.length = 2
    /\ ~drs.p.iter_topk
    /\ ~drs.p.use_degree

\* C13 as stated: on GREEDY_PARENTS, GreedyDepth(2) with k = 1 and length = 2
\* returns S = {2, 3, 4} with radius = 0 and S = {0, 2, 3} with radius = 1,
\* reset or not, the depth the target bounds being the number of edges on
\* the longest path: the attack goes on exactly while that number is above 2.
C13_GreedyScenariosEdges ==
    GreedyScenario =>
        /\ pc = "done" => /\ drs.p.radius = 0 => s = {2, 3, 4}
                          /\ drs.p.radius = 1 => s = {0, 2, 3}
        /\ pc = "greedy" => (GreedyPred <=> RefDepthEdges(g, s) > 2)

\* C13 amended: the same sets are returned, the depth the target bounds
\* being the number of nodes on the longest path: the attack goes on exactly
\* while that number is above 2.
C13_GreedyScenarios ==
    GreedyScenario =>
        /\ pc = "done" => /\ drs.p.radius = 0 => s = {2, 3, 4}
                          /\ drs.p.radius = 1 => s = {0, 2, 3}
        /\ pc = "greedy" => (GreedyPred <=> RefDepth(g, s) > 2)

\* The scenario with radius 1 returned {0, 2, 3}.
C13_Witness ==
    /\ GreedyScenario
    /\ pc = "done"
    /\ drs.p.radius = 1
    /\ s = {0, 2, 3}

\* One order of enumeration of S, fixed once and for all.
CanonOrder(S) == CHOOSE o \in Orders(S) : TRUE

\* What an execution ends with: the set returned, or the panic.
Ended(how, S) == [pc |-> how, s |-> S]

\* The rest of an execution of valiant_reduce_main from the set S and the
\* partitions ch already used, every partition taken whole as a set.
RECURSIVE ValiantRun(_, _, _, _, _)
ValiantRun(G, kind, tgt, S, ch) ==
    IF ~(IF kind = "ValiantDepth" THEN ValiantDepthPred(G, S, tgt)
         ELSE ValiantSizePred(S, tgt))
    THEN Ended("done", S)
    ELSE LET i == FindNext(ValiantPartitions(G), ch)
         IN  IF i = None THEN Ended("panic", S)
             ELSE ValiantRun(G, kind, tgt,
                             S \cup ParentsOfRef(RefPartition(G, i)), Append(ch, i))

\* The rest of an execution of valiant_ab16 from the residual graph cur and
\* the set S, every partition enumerated in its one fixed order.
RECURSIVE Ab16Run(_, _, _)
Ab16Run(tgt, cur, S) ==
    LET r == Ab16Pass(cur, S, tgt, CanonOrder(Ab16Part(cur)))
    IN  IF r.err # "" THEN Ended("panic", r.s)
        ELSE IF r.done THEN Ended("done", r.s)
        ELSE Ab16Run(tgt, r.curr, r.s)

\* The rest of an execution of greedy_reduce_main from the set S and the
\* in-radius set rad.
RECURSIVE GreedyRun(_, _, _, _, _, _)
GreedyRun(G, kind, tgt, p, S, rad) ==
    IF ~(IF kind = "GreedyDepth" THEN GreedyDepthPred(G, S, tgt)
         ELSE GreedySizePred(S, tgt))
    THEN Ended("done", S)
    ELSE LET r == append_removal(G, S, rad, count_paths(G, S, p), p)
         IN  IF r.err # "" THEN Ended("panic", r.set)
             ELSE GreedyRun(G, kind, tgt, p, r.set,
                            IF p.reset THEN {} ELSE r.inradius)

\* The rest of a call of cut_covering from the span sp and the candidate b.
RECURSIVE CutRun(_, _, _, _, _, _, _, _)
CutRun(G, t, onTie, S, lft, sp, b, exch) ==
    LET grown == GrowSpan(sp)
    IN  IF lft + grown >= Size(G) \/ detect_overlap(lft, grown, exch)
        THEN [s |-> IF b.some THEN S \cup b.removed_nodes ELSE S,
              exchanged |-> IF b.some THEN Append(exch, b.switched_edge) ELSE exch,
              err |-> ""]
        ELSE LET r == ScanSpan(G, S, t, lft, grown, b, onTie)
             IN  IF r.err # "" THEN [s |-> r.s, exchanged |-> exch, err |-> r.err]
                 ELSE CutRun(G, t, onTie, r.s, lft, grown, r.best, exch)

\* The rest of an execution of exchange_nodes_attack from the head of its
\* loop, for a target a usize holds.
RECURSIVE ExchangeRun(_, _, _, _, _, _)
ExchangeRun(G, t, onTie, S, lft, exch) ==
    IF lft >= Size(G) THEN Ended("done", S)
    ELSE LET c == CutRun(G, t, onTie, S, lft, CeilDer(t) + 1, NoBest, exch)
         IN  IF c.err # "" THEN Ended("panic", c.s)
             ELSE ExchangeRun(G, t, onTie, c.s, lft + 2, c.exchanged)

\* The rest of exchange_nodes_attack from inside a call of cut_covering.
ExchangeRunInCut ==
    LET c == CutRun(g, target_der, closest, s, left, span, best, exchanged)
    IN  IF c.err # "" THEN Ended("panic", c.s)
        ELSE ExchangeRun(g, target_der, closest, c.s, left + 2, c.exchanged)

\* What the attack running ends with when it goes on from the state it is in.
OutcomeFromHere ==
    IF pc \in {"done", "panic"} THEN Ended(pc, s)
    ELSE IF pc = "valiant" THEN ValiantRun(g, drs.kind, drs.target, s, chosen)
    ELSE IF pc = "ab16" THEN Ab16Run(drs.target, curr, s)
    ELSE IF pc = "greedy" THEN GreedyRun(g, drs.kind, drs.target, drs.p, s, inradius)
    ELSE IF pc = "exchange"
    THEN ExchangeRun(g, target_der, closest, s, left, exchanged)
    ELSE ExchangeRunInCut

\* What the same attack ends with from its start, as a function of the
\* graph and the parameters alone.
OutcomeFromStart ==
    IF drs.kind \in {"ValiantDepth", "ValiantSize"}
    THEN ValiantRun(g, drs.kind, drs.target, {}, <<>>)
    ELSE IF drs.kind = "ValiantAB16" THEN Ab16Run(drs.target, Remove(g, {}), {})
    ELSE IF drs.kind \in {"GreedyDepth", "GreedySize"}
    THEN GreedyRun(g, drs.kind, drs.target, drs.p, {}, {})
    ELSE ExchangeRun(g, target_der, closest, {}, 0, <<>>)

\* C14: an attack ends the same way in every execution on the same graph
\* with the same parameters.  Every state an execution of ValiantDepth,
\* ValiantSize, ValiantAB16, GreedyDepth, GreedySize or ExchangeNodes passes
\* through, whatever the orders in which the partitions enumerated their
\* edges so far, leads to the one outcome that the graph and the parameters
\* determine: the same set returned, or the same panic.
C14_SameOutcome ==
    pc # "idle" => OutcomeFromHere = OutcomeFromStart

\* Executions that took a partition of four edges in any of its 24 orders
\* have returned.
C14_Witness ==
    /\ pc = "done"
    /\ g = TEST_PARENTS
    /\ drs.kind = "ValiantDepth"
    /\ drs.target = 2
    /\ Cardinality(Orders(ValiantPartitions(g)[1])) = 24
    /\ s = ScenarioSet

\* start + k * interval, exactly.
ExactTarget(k) ==
    F64(profile.range.start.hi + k * profile.range.interval.hi,
        profile.range.start.lo + k * profile.range.interval.lo)

\* x < y
F64Lt(x, y) == x.hi < y.hi \/ (x.hi = y.hi /\ x.lo < y.lo)

\* C15: the targets enumerated are start first, then start + i * interval
\* for i = 1, 2, .. exactly as long as that value is below end; end is not
\* emitted unless it is start; start >= end gives one target; and with a
\* positive interval the running value grows on every pass, so the list is
\* finite: the enumeration does not run until the memory is exhausted.
C15_TargetEnumeration ==
    (pc # "idle" /\ profile # NoProfile) =>
        /\ \A i \in 1..Len(targets) :
              /\ targets[i] = ExactTarget(i - 1)
              /\ i > 1 => F64Lt(targets[i], profile.range.end)
              /\ targets[i] = profile.range.end
                    => profile.range.end = profile.range.start
        /\ (pc = "targets" /\ targets # <<>>)
             => /\ F64Lt(ExactTarget(Len(targets)), profile.range.end)
                /\ F64Lt(F64(0, 0), profile.range.interval)
                      => F64Lt(targets[Len(targets)], target)
        /\ (pc \notin {"targets", "abort"})
             => /\ targets # <<>>
                /\ F64Ge(ExactTarget(Len(targets)), profile.range.end)
                /\ F64Ge(profile.range.start, profile.range.end) => Len(targets) = 1
        /\ F64Lt(F64(0, 0), profile.range.interval) => pc # "abort"

\* C16: when an attack fails for a (run, target) pair the sweep goes on: a
\* step of attack_with_profile (the record of the failure, then the next
\* target or run) can be taken.
C16_FailureRecordedSweepGoesOn ==
    (pc = "panic" /\ profile # NoProfile) => ENABLED NextDriver

\* The predicate of the greedy loop, of the set S.
GreedyPredOf(S) ==
    IF drs.kind = "GreedyDepth" THEN GreedyDepthPred(g, S, drs.target)
    ELSE GreedySizePred(S, drs.target)

\* With reset, the pass taken from here ends with an in-radius set that
\* covers every node left outside S, and with the predicate still true.
SaturatedPass ==
    /\ pc = "greedy"
    /\ drs.p.reset
    /\ GreedyPred
    /\ LET r == append_removal(g, s, inradius, count_paths(g, s, drs.p), drs.p)
       IN  /\ r.err = ""
           /\ (Nodes(g) \ r.set) \subseteq r.inradius
           /\ GreedyPredOf(r.set)

\* Whether greedy_reduce_main, going on from the set S and the in-radius
\* set rad, runs forever.  A pass is a function of (S, rad) and there are
\* finitely many such pairs, so the loop runs forever exactly when it comes
\* back, with its predicate true, to a pair it has been in (seen).
RECURSIVE GreedyLoops(_, _, _, _, _, _, _)
GreedyLoops(G, kind, tgt, p, S, rad, seen) ==
    IF ~(IF kind = "GreedyDepth" THEN GreedyDepthPred(G, S, tgt)
         ELSE GreedySizePred(S, tgt))
    THEN FALSE
    ELSE IF <<S, rad>> \in seen THEN TRUE
    ELSE LET r == append_removal(G, S, rad, count_paths(G, S, p), p)
         IN  IF r.err # "" THEN FALSE
             ELSE GreedyLoops(G, kind, tgt, p, r.set,
                              IF p.reset THEN {} ELSE r.inradius,
                              seen \cup {<<S, rad>>})

\* C20: there are a graph and parameters with reset = true for which
\* greedy_reduce_main loops forever: among the graphs and the parameters an
\* attack can be started with, some GreedyDepth or GreedySize run with reset
\* keeps iterating with its predicate true and never leaves the loop.
C20_SomeResetRunLoopsForever ==
    pc = "idle" =>
        \E G \in Graphs, kind \in {"GreedyDepth", "GreedySize"},
           t \in Targets, p \in {q \in GreedyParamSet : q.reset} :
            GreedyLoops(G, kind, t, GreedyRunParams(kind, t, p), {}, {}, {})

\* greedy_reduce_main never loops forever, with reset or without: every
\* pass of the loop either ends it (return or panic) or puts at least one
\* more of the n nodes in S, so there are at most n passes that leave the
\* loop running.
GreedyLoopEnds ==
    [][(pc = "greedy") =>
          \/ pc' \in {"done", "panic"}
          \/ /\ pc' = "greedy"
             /\ Cardinality(s) < Cardinality(s')
             /\ Cardinality(s') <= Size(g)]_vars

\* The loop has made a pass and the next one saturates the in-radius set.
SaturationReached == SaturatedPass /\ s # {}

\* The nodes within r hops of some node of sel.
Balls(G, sel, r) == UNION {RefBall(G, v, r) : v \in sel}

\* C21: with a radius > 0, after every append_removal call of the greedy loop
\* the in-radius set is exactly the union of the radius-balls of the nodes
\* selected since the set was last cleared (since the start of the attack
\* without reset).
C21_InradiusIsUnionOfBalls ==
    [][(pc = "greedy" /\ pc' = "greedy" /\ drs.p.radius > 0) =>
          LET r == append_removal(g, s, inradius, count_paths(g, s, drs.p), drs.p)
              sel == IF drs.p.reset THEN r.set \ s ELSE r.set
          IN  r.inradius = Balls(g, sel, drs.p.radius)]_vars

\* The k the loop of GreedySize(s) runs with is min(k, ceil(s / 100)): true
\* of every s up to 13107200, false of 13107201 (one below) and of
\* 1677722689 (one above), where the f32 product departs from s / 100.
EffectiveKIsExactCeil ==
    [][(pc = "idle" /\ pc' = "params" /\ drs.kind = "GreedySize") =>
          drs'.p.k = Min2(drs.p.k, (drs.target + 99) \div 100)]_vars

\* The overshoot bound with the k of the run (an invariant of SpecLarge):
\* GreedySize(s) with 1 <= s <= n and k >= 1 does not panic and returns S
\* with s <= |S| <= s + k_run - 1, where k_run, the k the loop runs with, is
\* at most ceil(s / 100) at the sizes of the bounds; with radius 0 it
\* returns |S| = s.
SizeOvershootBound ==
    (drs.kind = "GreedySize" /\ drs.target \in 1..Size(g)) =>
        /\ pc # "panic"
        /\ drs.p.k >= 1
        /\ 100 * (drs.p.k - 1) < drs.target
        /\ pc = "done" =>
              /\ drs.target <= Cardinality(s)
              /\ Cardinality(s) <= drs.target + drs.p.k - 1
              /\ drs.p.radius = 0 => Cardinality(s) = drs.target

\* A run with k_eff = 2 that returned one node more than the target.
SizeOvershootReached ==
    /\ pc = "done"
    /\ drs.kind = "GreedySize"
    /\ drs.p.k = 2
    /\ Cardinality(s) = drs.target + 1

\* The indices (from 0) of the partitions of G that hold an edge.
NonEmptyParts(G) ==
    {i \in 0..(Len(ValiantPartitions(G)) - 1) : ValiantPartitions(G)[i + 1] # {}}

\* C28 as stated: ValiantDepth(d) never runs out of partitions, for every
\* d >= 0: it does not panic, it absorbs each non-empty partition at most
\* once, and once all of them are absorbed S holds the parent of every edge,
\* G - S has no edge and the loop stops.
C28_DepthNeverExhaustsFromZero ==
    (drs.kind = "ValiantDepth") =>
        /\ pc # "panic"
        /\ Len(chosen) <= Cardinality(NonEmptyParts(g))
        /\ (pc = "valiant" /\ NonEmptyParts(g) \subseteq Range(chosen))
              => /\ \A e \in RefEdges(g) : e.parent \in s
                 /\ RefDepthEdges(g, s) = 0
                 /\ ~ValiantPred

\* C28 amended: ValiantDepth(d) with d >= 1 never runs out of partitions: it
\* does not panic, it absorbs each non-empty partition at most once, and
\* once all of them are absorbed S holds the parent of every edge, G - S
\* has no edge, its depth is at most 1 (one node) and the loop stops.
\* ValiantDepth(0) never returns on a graph that has a node: the last node is
\* no parent, so the depth stays above 0.
C28_DepthNeverExhausts ==
    (drs.kind = "ValiantDepth") =>
        /\ drs.target >= 1 =>
              /\ pc # "panic"
              /\ Len(chosen) <= Cardinality(NonEmptyParts(g))
              /\ (pc = "valiant" /\ NonEmptyParts(g) \subseteq Range(chosen))
                    => /\ \A e \in RefEdges(g) : e.parent \in s
                       /\ RefDepthEdges(g, s) = 0
                       /\ RefDepth(g, s) <= 1
                       /\ ~ValiantPred
        /\ (drs.target = 0 /\ Size(g) >= 1) => pc # "done"

\* A run that had to absorb every non-empty partition, more than one, and
\* returned.
C28_Witness ==
    /\ pc = "done"
    /\ drs.kind = "ValiantDepth"
    /\ Cardinality(NonEmptyParts(g)) >= 2
    /\ NonEmptyParts(g) \subseteq Range(chosen)

\* C29: in every iteration of valiant_ab16 on a graph with at least one
\* edge, k = ceil(log2 d') is at least 1, so max_size = m / k is defined,
\* and some non-empty partition of the residual graph has at most max_size
\* edges: the selection never fails.
C29_Ab16SelectionNeverFails ==
    (drs.kind = "ValiantAB16" /\ CountEdges(g) >= 1) =>
        /\ err \notin {"attempt to divide by zero", "unwrap on None"}
        /\ pc = "ab16" =>
              LET ki == Log2Ceil(NextPowerOfTwo(Depth(curr)))
              IN  /\ ki >= 1
                  /\ Ab16Chosen(ValiantPartitions(curr), CountEdges(curr) \div ki) # None

\* The edges of G that cross the frontier of the span at left_: both ends
\* outside S, the parent in [left_, frontier), the child in (frontier, right).
CrossingSet(G, left_, span_, S) ==
    {e \in RefEdges(G) :
        /\ e.parent \notin S
        /\ e.child \notin S
        /\ left_ <= e.parent
        /\ e.parent < left_ + span_ \div 2
        /\ left_ + span_ \div 2 < e.child
        /\ e.child < left_ + span_}

\* C22: crossing_edges(left, span, S) returns frontier = left + floor(span / 2)
\* and exactly the edges (p, c) with p and c outside S, left <= p < frontier
\* and frontier < c < left + span, each once, by interval ascending; no edge
\* returned touches the frontier.
C22_CrossingEdges ==
    pc = "done" =>
        /\ frontier = left + span \div 2
        /\ Range(crossing) = CrossingSet(g, left, span, s)
        /\ Len(crossing) = Cardinality(CrossingSet(g, left, span, s))
        /\ \A i, j \in 1..Len(crossing) :
              i < j => Interval(crossing[i]) <= Interval(crossing[j])
        /\ \A i \in 1..Len(crossing) :
              frontier \notin {crossing[i].parent, crossing[i].child}

\* A call that returned edges of two intervals and left out an edge of the
\* span because S cuts it.
C22_Witness ==
    /\ pc = "done"
    /\ Len(crossing) >= 2
    /\ Interval(crossing[1]) < Interval(crossing[Len(crossing)])
    /\ CrossingSet(g, left, span, {}) \ Range(crossing) # {}

\* C23: exchange_nodes_attack terminates for every graph and every
\* target_der >= 0: it does not panic, in cut_covering the span grows on
\* every pass of the span loop, and the outer loop enters cut_covering for
\* left = 0, 2, 4, .. below n and returns once left >= n.
C23_ExchangeTerminates ==
    drs.kind = "ExchangeNodes" =>
        /\ pc # "panic"
        /\ left % 2 = 0
        /\ pc = "span" => (left < Size(g) /\ GrowSpan(span) > span)
        /\ pc = "done" => left >= Size(g)

\* The candidates of one scanned span in the order of the walk: an edge
\* still active behind the nodes removed before it, with the nodes removed
\* up to it and the ratio of its interval to their number.
RECURSIVE Candidates(_, _, _, _, _, _)
Candidates(edges, i, S, removed, front, onTie) ==
    IF i > Len(edges) THEN <<>>
    ELSE IF Active(edges[i], S \cup removed)
    THEN LET more == removed \cup {ClosestTo(edges[i], front, onTie)}
         IN  <<[ner |-> <<Interval(edges[i]), Cardinality(more)>>,
                switched_edge |-> edges[i],
                removed_nodes |-> more]>>
                 \o Candidates(edges, i + 1, S, more, front, onTie)
    ELSE Candidates(edges, i + 1, S, removed, front, onTie)

\* C24: cut_covering changes S in two ways only.  A scanned span without
\* crossing edges that exceeds target_der inserts its frontier, and no
\* other scan changes S; the best candidate kept is the one of highest ner
\* among those with ner >= target_der, the earliest on ties.  On return the
\* nodes of the best candidate are inserted and its edge is returned, and
\* without a best candidate nothing is inserted and nothing returned.
\* Nothing is ever removed from S.
C24_CutCoveringChangesS ==
    [][pc = "span" =>
          /\ s \subseteq s'
          /\ pc' = "span" =>
                /\ s' = IF crossing' = <<>> /\ SpanExceeds(span', target_der)
                        THEN s \cup {frontier'} ELSE s
                /\ LET cands ==
                           SelectSeq(
                               Candidates(crossing', 1, s',
                                          {frontier'} \ s', frontier', closest),
                               LAMBDA c : NerGe(c.ner, target_der))
                       all == (IF best.some
                               THEN <<[ner |-> best.ner,
                                       switched_edge |-> best.switched_edge,
                                       removed_nodes |-> best.removed_nodes]>>
                               ELSE <<>>) \o cands
                   IN  IF all = <<>> THEN ~best'.some
                       ELSE /\ best'.some
                            /\ \E i \in 1..Len(all) :
                                  /\ best'.ner = all[i].ner
                                  /\ best'.switched_edge = all[i].switched_edge
                                  /\ best'.removed_nodes = all[i].removed_nodes
                                  /\ \A j \in 1..Len(all) :
                                        ~NerGt(all[j].ner, all[i].ner)
                                  /\ \A j \in 1..(i - 1) :
                                        NerGt(all[i].ner, all[j].ner)
          /\ pc' = "exchange" =>
                IF best.some
                THEN /\ s' = s \cup best.removed_nodes
                     /\ exchanged' = Append(exchanged, best.switched_edge)
                ELSE /\ s' = s
                     /\ exchanged' = exchanged]_vars

\* cut_covering returned an edge whose candidate removed two nodes or more,
\* into a set that holds other nodes as well.
C24_Witness ==
    /\ pc = "exchange"
    /\ left > 0
    /\ best.some
    /\ Cardinality(best.removed_nodes) >= 2
    /\ best.removed_nodes \subseteq s
    /\ s # best.removed_nodes
    /\ exchanged # <<>>
    /\ exchanged[Len(exchanged)] = best.switched_edge

\* C25: the assertions of the attack hold: removed_nodes.insert(node_to_remove)
\* always inserts a new node, and every crossing edge has an interval of at
\* most the span.
C25_AssertionsHold ==
    drs.kind = "ExchangeNodes" =>
        /\ err \notin {"assertion failed: removed_nodes.insert(node_to_remove)",
                       "assertion failed: edge.interval() <= span"}
        /\ pc = "span" =>
              \A i \in 1..Len(crossing) : Interval(crossing[i]) <= span

\* A span was scanned whose walk removed a node for each of two edges or
\* more.
C25_Witness ==
    /\ pc = "span"
    /\ Len(crossing) >= 2
    /\ best.some
    /\ Cardinality(best.removed_nodes) >= 3
    /\ best.switched_edge \in Range(crossing)

\* C26: the edges exchanged are pairwise non-overlapping as closed intervals
\* [parent, child], after any number of passes of the outer loop.
C26_ExchangedDisjoint ==
    \A i, j \in 1..Len(exchanged) :
        i < j => ~Overlaps(exchanged[i], exchanged[j])

\* The attack returned with three edges exchanged.
C26_Witness ==
    /\ pc = "done"
    /\ Len(exchanged) >= 3

====
